---------------------------- MODULE Spec2Model ----------------------------
(***************************************************************************)
(* Maritime risk-assessment and alert pipeline (KillMonga130/AI-agent-aws). *)
(*                                                                         *)
(* Specifications over one set of variables:                                *)
(*   ClassifierSpec   the pure threshold classifier                         *)
(*                    (src/src/utils/helpers.py)                            *)
(*   PartialSpec      the classifier on measurement sets with absent values *)
(*   InterpreterSpec  the pure reasoning-response interpreter               *)
(*                    (RiskAnalysisAgent._parse_llm_response)               *)
(*   ComposerSpec     the alert agent on its own                            *)
(*   Spec, FairSpec   the supervisor's staged pipeline                      *)
(*                    (SupervisorAgent.process_query and the three agents)  *)
(*                                                                         *)
(* Number conventions.  Measurements are fixed-point integers in tenths of  *)
(* the source's unit (wave height 2.5 m is 25, wind 40 kn is 400), so the   *)
(* source's float comparisons against 1.0, 1.5, 2.0, 2.5, 4.0, 5.0, 15, 25  *)
(* and 40 are exact integer comparisons.  Risk scores are integers on the   *)
(* source's 0..100 scale.  Confidence scores (source range 0..1) are        *)
(* integers in thousandths: 0.5 is 500, 0.3 is 300, 0.007 is 7.             *)
(***************************************************************************)
EXTENDS Integers, Sequences, FiniteSets, TLC

VARIABLES
    measurements,   \* classifier: the argument tuple of the call, or None
    classified,     \* classifier: the returned dict, or None
    response_text,  \* interpreter: the reasoning response text of the call, or None
    parsed,         \* interpreter: the returned RiskAssessment, or None
    pc,             \* supervisor: position of process_query
    query,          \* supervisor: the MaritimeSafetyQuery being processed, or None
    location,       \* process_query local: the resolved LocationData, or None
    ingestion_result, \* process_query local: the IngestionResult, or None
    risk_assessment,  \* process_query local: the RiskAssessment, or None
    alert,          \* process_query local: the Alert, or None
    synth_text,     \* process_query local response_text (line 82), or None
    response,       \* the AgentResponse returned to the caller, or None
    stages,         \* the stages entered for the current query, in order
    llm_calls,      \* bedrock_client.invoke_model calls of the current query, per purpose
    llm_analysis,   \* outcome of the analysis call to the reasoning service, or None
    llm_extraction, \* outcome of the extraction call, or None when none was made
    llm_synthesis,  \* outcome of the synthesis call, or None
    tasks,          \* fetch_all_data: the two fetch coroutines, and the order they completed in
    composer_input, \* alert agent: the assessment of the call and what composing does, or None
    composed        \* alert agent: the result of execute, or None

classifierVars == <<measurements, classified>>

interpreterVars == <<response_text, parsed>>

pipelineVars ==
    <<pc, query, location, ingestion_result, risk_assessment, alert,
      synth_text, response, stages, llm_calls, llm_analysis, llm_extraction,
      llm_synthesis, tasks>>

composerVars == <<composer_input, composed>>

vars == <<measurements, classified, response_text, parsed, pc, query, location,
          ingestion_result, risk_assessment, alert, synth_text, response,
          stages, llm_calls, llm_analysis, llm_extraction,
          llm_synthesis, tasks, composer_input, composed>>

(***************************************************************************)
(* Optional values: None is the empty sequence, Some(x) a one-element one.  *)
(***************************************************************************)
None == <<>>

Some(x) == <<x>>

IsSome(o) == Len(o) = 1

Get(o) == o[1]

Min(a, b) == IF a < b THEN a ELSE b

Max(a, b) == IF a > b THEN a ELSE b

(***************************************************************************)
(* DeterministicRiskClassifier: helpers.classify_risk_from_conditions.      *)
(* Each factor is one if/elif chain adding to risk_score and appending to   *)
(* hazards; the chains run in the order wave, wind, current, visibility.    *)
(***************************************************************************)

\* Wave chain with the elif of line 62 written as a second, independent if:
\* a wave above 4.0 m then collects the +20 bucket as well.
WavePenaltyStacking(wave_height) ==
    (IF wave_height > 40 THEN 30 ELSE 0)
      + (IF wave_height > 25 THEN 20
         ELSE IF wave_height > 15 THEN 10 ELSE 0)

\* helpers.py lines 59-66
WavePenalty(wave_height) ==
    IF wave_height > 40 THEN 30
    ELSE IF wave_height > 25 THEN 20
    ELSE IF wave_height > 15 THEN 10
    ELSE 0

WaveHazards(wave_height) ==
    IF wave_height > 40 THEN <<"Severe wave conditions (>4m)">>
    ELSE IF wave_height > 25 THEN <<"Significant wave conditions (2.5-4m)">>
    ELSE <<>>

\* helpers.py lines 69-76
WindPenalty(wind_speed) ==
    IF wind_speed > 400 THEN 30
    ELSE IF wind_speed > 250 THEN 15
    ELSE IF wind_speed > 150 THEN 5
    ELSE 0

WindHazards(wind_speed) ==
    IF wind_speed > 400 THEN <<"Gale-force winds (>40 knots)">>
    ELSE IF wind_speed > 250 THEN <<"Strong winds (25-40 knots)">>
    ELSE <<>>

\* helpers.py lines 79-83
CurrentPenalty(current_velocity) ==
    IF current_velocity > 20 THEN 15
    ELSE IF current_velocity > 10 THEN 8
    ELSE 0

CurrentHazards(current_velocity) ==
    IF current_velocity > 20 THEN <<"Strong ocean currents (>2 km/h)">>
    ELSE <<>>

\* helpers.py lines 86-91
VisibilityPenalty(visibility) ==
    IF visibility < 10 THEN 25
    ELSE IF visibility < 50 THEN 15
    ELSE 0

VisibilityHazards(visibility) ==
    IF visibility < 10 THEN <<"Poor visibility (<1 NM)">>
    ELSE IF visibility < 50 THEN <<"Moderate visibility (1-5 NM)">>
    ELSE <<>>

\* Level mapping with the comparisons of lines 95-99 written <= instead of <.
RiskLevelOfScoreInclusive(risk_score) ==
    IF risk_score <= 25 THEN "LOW"
    ELSE IF risk_score <= 50 THEN "MODERATE"
    ELSE IF risk_score <= 75 THEN "HIGH"
    ELSE "SEVERE"

\* helpers.py lines 95-102
RiskLevelOfScore(risk_score) ==
    IF risk_score < 25 THEN "LOW"
    ELSE IF risk_score < 50 THEN "MODERATE"
    ELSE IF risk_score < 75 THEN "HIGH"
    ELSE "SEVERE"

\* helpers.py lines 44-108
classify_risk_from_conditions(wave_height, wind_speed, current_velocity, visibility) ==
    LET s0 == 0
        s1 == s0 + WavePenalty(wave_height)
        s2 == s1 + WindPenalty(wind_speed)
        s3 == s2 + CurrentPenalty(current_velocity)
        s4 == s3 + VisibilityPenalty(visibility)
        risk_score == Min(100, s4)
    IN  [risk_level |-> RiskLevelOfScore(risk_score),
         risk_score |-> risk_score,
         hazards    |-> WaveHazards(wave_height) \o WindHazards(wind_speed)
                          \o CurrentHazards(current_velocity)
                          \o VisibilityHazards(visibility)]

(***************************************************************************)
(* Inputs of the classifier: every bucket of every factor, with the values  *)
(* on and next to each threshold (tenths of m, kn, km/h, NM).               *)
(***************************************************************************)
WaveSamples == {0, 10, 15, 16, 25, 26, 35, 40, 41, 45}

WindSamples == {0, 100, 150, 151, 250, 251, 280, 400, 401, 450}

CurrentSamples == {0, 5, 10, 11, 20, 21, 25}

VisibilitySamples == {0, 5, 9, 10, 40, 49, 50, 51, 100}

\* The supervisor after construction (supervisor_agent.py lines 28-34): no
\* query in progress.
NoCalls == [extract |-> 0, analyze |-> 0, synthesize |-> 0]

(***************************************************************************)
(* The coroutines of DataFetcher.fetch_all_data (data_fetcher.py 112-141):  *)
(* not created, awaited by asyncio.gather, or finished with their value.    *)
(***************************************************************************)
NotCreated == [state |-> "none", value |-> None]

Awaited == [state |-> "awaited", value |-> None]

Finished(v) == [state |-> "finished", value |-> v]

NoTasks == [weather_task |-> NotCreated, ocean_task |-> NotCreated,
            completed |-> <<>>]

PipelineIdle ==
    /\ pc = "IDLE"
    /\ tasks = NoTasks
    /\ query = None
    /\ location = None
    /\ ingestion_result = None
    /\ risk_assessment = None
    /\ alert = None
    /\ synth_text = None
    /\ response = None
    /\ stages = <<>>
    /\ llm_calls = NoCalls
    /\ llm_analysis = None
    /\ llm_extraction = None
    /\ llm_synthesis = None

\* No call of the alert agent on its own is under way.
ComposerIdle == composer_input = None /\ composed = None

ClassifierInit ==
    /\ measurements \in {Some([wave_height |-> w, wind_speed |-> s,
                               current_velocity |-> c, visibility |-> v]) :
                            w \in WaveSamples, s \in WindSamples,
                            c \in CurrentSamples, v \in VisibilitySamples}
    /\ classified = None
    /\ response_text = None
    /\ parsed = None
    /\ PipelineIdle
    /\ ComposerIdle

\* One call of classify_risk_from_conditions on the chosen arguments.
Classify ==
    /\ classified = None
    /\ LET m == Get(measurements)
       IN  classified' = Some(classify_risk_from_conditions(
                              m.wave_height, m.wind_speed,
                              m.current_velocity, m.visibility))
    /\ UNCHANGED <<measurements, interpreterVars, pipelineVars, composerVars>>

ClassifierNext == Classify

ClassifierSpec == ClassifierInit /\ [][ClassifierNext]_vars

(***************************************************************************)
(* C1: for every combination of wave height, wind speed, current velocity   *)
(* and visibility the classifier returns a risk_score within [0,100] and    *)
(* the risk_level that is the bucket of that score: [0,25) LOW, [25,50)     *)
(* MODERATE, [50,75) HIGH, [75,100] SEVERE.                                 *)
(***************************************************************************)
C1_ScoreInRangeAndLevelIsBucket ==
    IsSome(classified) =>
        LET r == Get(classified)
        IN  /\ r.risk_score >= 0 /\ r.risk_score <= 100
            /\ (r.risk_score < 25) <=> (r.risk_level = "LOW")
            /\ (r.risk_score >= 25 /\ r.risk_score < 50) <=> (r.risk_level = "MODERATE")
            /\ (r.risk_score >= 50 /\ r.risk_score < 75) <=> (r.risk_level = "HIGH")
            /\ (r.risk_score >= 75) <=> (r.risk_level = "SEVERE")

\* Poor visibility alone scores exactly 25, the lower edge of MODERATE.
C1_Witness ==
    /\ IsSome(classified)
    /\ Get(classified).risk_score = 25
    /\ Get(classified).risk_level = "MODERATE"
    /\ Get(measurements).visibility < 10

(***************************************************************************)
(* C2: the score is the sum of exactly one penalty per factor; within a     *)
(* factor only the highest matching bucket contributes and lower bounds are *)
(* strict: wave in (2.5,4.0] adds exactly 20, wave > 4.0 exactly 30, wind   *)
(* in (25,40] exactly 15, wind > 40 exactly 30, current in (1.0,2.0]        *)
(* exactly 8, current > 2.0 exactly 15, and a wave, wind or current value   *)
(* at or below the factor's lowest threshold (1.5 m, 15 kn, 1.0 km/h) adds  *)
(* 0.  The visibility term is the single visibility penalty of the call.    *)
(***************************************************************************)
C2_WaveTerm(w) ==
    CASE w > 40 -> 30
      [] w > 25 /\ w <= 40 -> 20
      [] w > 15 /\ w <= 25 -> 10
      [] w <= 15 -> 0

C2_WindTerm(s) ==
    CASE s > 400 -> 30
      [] s > 250 /\ s <= 400 -> 15
      [] s > 150 /\ s <= 250 -> 5
      [] s <= 150 -> 0

C2_CurrentTerm(c) ==
    CASE c > 20 -> 15
      [] c > 10 /\ c <= 20 -> 8
      [] c <= 10 -> 0

C2_OnePenaltyPerFactor ==
    IsSome(classified) =>
        LET m == Get(measurements)
            r == Get(classified)
        IN  r.risk_score = C2_WaveTerm(m.wave_height) + C2_WindTerm(m.wind_speed)
                             + C2_CurrentTerm(m.current_velocity)
                             + VisibilityPenalty(m.visibility)

\* Wave 4.1 m and wind 45 kn on a clear day with a slack current: 30 + 30.
C2_Witness ==
    /\ IsSome(classified)
    /\ Get(measurements).wave_height > 40
    /\ Get(measurements).wind_speed > 400
    /\ Get(measurements).current_velocity <= 10
    /\ Get(measurements).visibility >= 50
    /\ Get(classified).risk_score = 60

(***************************************************************************)
(* Reasoning-service texts.                                                 *)
(*                                                                         *)
(* A response text is a sequence of tokens standing for the concatenation   *)
(* of their renderings, separated by blanks:                                *)
(*   lbrace, rbrace   the characters { and }                                *)
(*   word             a run of letters without braces                       *)
(*   obj              the members of one JSON object, "key": value, ...,    *)
(*                    without the enclosing braces and with no brace inside *)
(*                    (the keys the two call sites read; other keys are     *)
(*                    ignored by both)                                      *)
(* Every sample text is shorter than 500 characters.                        *)
(*                                                                         *)
(* A JSON value is [t, s, n, l]: t its JSON type ("absent" when the key is  *)
(* missing), s a string value, n a number value (booleans: 1 and 0), l the  *)
(* items of a list of strings; "badlist" is a list with a non-string item.  *)
(***************************************************************************)
Absent == [t |-> "absent", s |-> "", n |-> 0, l |-> <<>>]

JStr(x) == [t |-> "str", s |-> x, n |-> 0, l |-> <<>>]

JNum(x) == [t |-> "num", s |-> "", n |-> x, l |-> <<>>]

JNull == [t |-> "null", s |-> "", n |-> 0, l |-> <<>>]

JTrue == [t |-> "bool", s |-> "", n |-> 1, l |-> <<>>]

JList(x) == [t |-> "list", s |-> "", n |-> 0, l |-> x]

JBadList == [t |-> "badlist", s |-> "", n |-> 0, l |-> <<>>]

EmptyObj ==
    [risk_level |-> Absent, risk_score |-> Absent, hazards |-> Absent,
     recommendations |-> Absent, confidence |-> Absent,
     location_name |-> Absent, latitude |-> Absent, longitude |-> Absent]

LBrace == [kind |-> "lbrace", w |-> "", obj |-> None]

RBrace == [kind |-> "rbrace", w |-> "", obj |-> None]

Word(x) == [kind |-> "word", w |-> x, obj |-> None]

Obj(o) == [kind |-> "obj", w |-> "", obj |-> Some(o)]

\* str.upper() and str.lower() on the strings the samples use.
UpperTable ==
    [x \in {"low", "LOW", "Low", "moderate", "Moderate", "MODERATE", "high",
            "High", "HIGH", "severe", "SEVERE", "unknown", "UNKNOWN",
            "extreme", "EXTREME", " low", " LOW", ""} |->
        CASE x \in {"low", "LOW", "Low"} -> "LOW"
          [] x \in {"moderate", "Moderate", "MODERATE"} -> "MODERATE"
          [] x \in {"high", "High", "HIGH"} -> "HIGH"
          [] x \in {"severe", "SEVERE"} -> "SEVERE"
          [] x \in {"unknown", "UNKNOWN"} -> "UNKNOWN"
          [] x \in {"extreme", "EXTREME"} -> "EXTREME"
          [] x \in {" low", " LOW"} -> " LOW"
          [] x = "" -> ""]

Upper(x) == UpperTable[x]

LowerTable ==
    [x \in {"severe", "Severe", "SEVERE", "severely", "high", "High", "HIGH",
            "higher", "risk", "Risk", "RISK", "risky", "caution", "Caution",
            "CAUTION", "precautionary", "moderate", "low", "LOW", "weather",
            "ahead", "calm", "seas", "and", "the", "is", "extreme", "EXTREME",
            "unknown", "Moderate", " low", ""} |->
        CASE x \in {"severe", "Severe", "SEVERE"} -> "severe"
          [] x \in {"high", "High", "HIGH"} -> "high"
          [] x \in {"risk", "Risk", "RISK"} -> "risk"
          [] x \in {"caution", "Caution", "CAUTION"} -> "caution"
          [] x \in {"low", "LOW"} -> "low"
          [] x \in {"extreme", "EXTREME"} -> "extreme"
          [] x \in {"moderate", "Moderate"} -> "moderate"
          [] OTHER -> x]

Lower(x) == LowerTable[x]

\* needle in haystack, for lowercase strings of the samples: equality, or one
\* of the proper-substring pairs.
InStr(needle, haystack) ==
    \/ needle = haystack
    \/ <<needle, haystack>> \in {<<"severe", "severely">>, <<"high", "higher">>,
                                 <<"risk", "risky">>,
                                 <<"caution", "precautionary">>,
                                 <<"low", " low">>}

\* needle in the lowercased rendering of one token.  The members of an obj
\* render their keys: "risk_level" and "risk_score" contain "risk".
TokenMentions(tok, needle) ==
    CASE tok.kind = "word" -> InStr(needle, Lower(tok.w))
      [] tok.kind = "obj" ->
            \/ /\ needle = "risk"
               /\ \/ Get(tok.obj).risk_level.t # "absent"
                  \/ Get(tok.obj).risk_score.t # "absent"
            \/ /\ Get(tok.obj).risk_level.t = "str"
               /\ InStr(needle, Lower(Get(tok.obj).risk_level.s))
      [] OTHER -> FALSE

\* needle in response_text.lower()
Mentions(text, needle) ==
    \E i \in 1..Len(text) : TokenMentions(text[i], needle)

\* The text as stored in a reasoning field (response_text[:500]; the sample
\* texts are shorter than 500 characters): one string per token.
Rendered(text) ==
    [i \in 1..Len(text) |->
        CASE text[i].kind = "lbrace" -> "{"
          [] text[i].kind = "rbrace" -> "}"
          [] text[i].kind = "word" -> text[i].w
          [] OTHER -> ToString(Get(text[i].obj))]

(***************************************************************************)
(* ReasoningResponseInterpreter: RiskAnalysisAgent._parse_llm_response and  *)
(* _fallback_parse.  A computation that may raise returns a Result:         *)
(* [raised, exc, value], value meaningful only when raised is FALSE.        *)
(***************************************************************************)
\* The integer square root (math.sqrt, rounded down to the model's grid).
ISqrt(n) == CHOOSE r \in 0..n : r * r <= n /\ n < (r + 1) * (r + 1)

\* OceanData.current_velocity_magnitude (schemas.py 35-40): the components
\* are tenths of m/s, the magnitude tenths of km/h (factor 3.6).
current_velocity_magnitude(ocean) ==
    (ISqrt(ocean.current_velocity_u * ocean.current_velocity_u
             + ocean.current_velocity_v * ocean.current_velocity_v) * 36) \div 10

\* No context: the parser called on its own.
NoContext == [weather |-> None, ocean |-> None]

\* RiskAnalysisAgent._build_analysis_context (lines 110-145): the report
\* lists each measurement to one decimal (the model's grid), or "No weather
\* data available" / "No ocean data available" (None) for an absent part.
_build_analysis_context(result) ==
    [weather |-> IF result.weather_data # None
                 THEN Some([wave_height |-> Get(result.weather_data).wave_height,
                            wind_speed  |-> Get(result.weather_data).wind_speed,
                            visibility  |-> Get(result.weather_data).visibility])
                 ELSE None,
     ocean   |-> IF result.ocean_data # None
                 THEN Some([current_velocity |->
                                current_velocity_magnitude(Get(result.ocean_data)),
                            current_velocity_u |->
                                Get(result.ocean_data).current_velocity_u,
                            current_velocity_v |->
                                Get(result.ocean_data).current_velocity_v])
                 ELSE None]

NoAssessment ==
    [risk_level |-> "", risk_score |-> 0, hazards |-> <<>>,
     recommendations |-> <<>>, reasoning |-> <<>>, confidence_score |-> 0]

Returned(v) == [raised |-> FALSE, exc |-> "", value |-> v]

Raised(e) == [raised |-> TRUE, exc |-> e, value |-> NoAssessment]

\* Positions of the first { and of the last } of the text (0: there is none).
FirstLBrace(text) ==
    LET at == {i \in 1..Len(text) : text[i].kind = "lbrace"}
    IN  IF at = {} THEN 0 ELSE CHOOSE i \in at : \A j \in at : i <= j

LastRBrace(text) ==
    LET at == {i \in 1..Len(text) : text[i].kind = "rbrace"}
    IN  IF at = {} THEN 0 ELSE CHOOSE i \in at : \A j \in at : i >= j

\* re.search(r'\{.*\}', response_text, re.DOTALL): leftmost { and, the star
\* being greedy and the dot matching newlines, the last } after it.
\* risk_analysis_agent.py line 152
BraceSpan(text) ==
    IF FirstLBrace(text) > 0 /\ LastRBrace(text) > FirstLBrace(text)
    THEN Some(SubSeq(text, FirstLBrace(text), LastRBrace(text)))
    ELSE None

\* json.loads of a brace span: the span is a JSON document exactly when it is
\* {} or { members }; anything else between the outer braces (words, further
\* braces, a second object) is a JSONDecodeError.  line 154
JsonLoads(span) ==
    IF Len(span) = 2 THEN Some(EmptyObj)
    ELSE IF Len(span) = 3 /\ span[2].kind = "obj" THEN span[2].obj
    ELSE None

\* risk_analysis_agent.py lines 179-200
_fallback_parse(text) ==
    LET result == [EmptyObj EXCEPT !.risk_level = JStr("MODERATE"),
                                   !.risk_score = JNum(50),
                                   !.hazards = JList(<<>>),
                                   !.recommendations = JList(<<>>),
                                   !.confidence = JNum(50)]
    IN  IF Mentions(text, "severe")
        THEN [result EXCEPT !.risk_level = JStr("SEVERE"), !.risk_score = JNum(80)]
        ELSE IF Mentions(text, "high") /\ Mentions(text, "risk")
        THEN [result EXCEPT !.risk_level = JStr("HIGH"), !.risk_score = JNum(65)]
        ELSE IF Mentions(text, "caution")
        THEN [result EXCEPT !.risk_level = JStr("MODERATE"), !.risk_score = JNum(45)]
        ELSE result

\* float(v): numbers and booleans convert, numeric strings convert, other
\* strings raise ValueError, null and lists raise TypeError.
Float(v) ==
    CASE v.t = "num" -> Some(v.n)
      [] v.t = "bool" -> Some(v.n)
      [] v.t = "str" /\ v.s = "75" -> Some(75)
      [] v.t = "str" /\ v.s = "90" -> Some(90)
      [] OTHER -> None

\* data.get("risk_level", "MODERATE").upper(): None is AttributeError (the
\* value is not a string).  line 159
LevelOf(data) ==
    CASE data.risk_level.t = "absent" -> Some("MODERATE")
      [] data.risk_level.t = "str" -> Some(Upper(data.risk_level.s))
      [] OTHER -> None

\* float(data.get("risk_score", 50)): None is ValueError or TypeError.  line 160
ScoreOf(data) ==
    IF data.risk_score.t = "absent" THEN Some(50) ELSE Float(data.risk_score)

\* float(data.get("confidence", 0.7)) / 100.0 in thousandths: a confidence c
\* becomes c/100 = 10c thousandths, the default 0.7 becomes 0.007.  line 168
ConfidenceOf(data) ==
    IF data.confidence.t = "absent" THEN Some(7)
    ELSE IF Float(data.confidence) = None THEN None
    ELSE Some(Get(Float(data.confidence)) * 10)

\* data.get(key, []) as a List[str] field.
ListOf(v) == IF v.t = "absent" THEN <<>> ELSE v.l

\* RiskAssessment's validation (schemas.py lines 52-60): hazards and
\* recommendations are lists of strings, 0 <= risk_score <= 100,
\* 0 <= confidence_score <= 1; risk_level is any string.
ValidAssessment(data, score, confidence) ==
    /\ data.hazards.t \in {"absent", "list"}
    /\ data.recommendations.t \in {"absent", "list"}
    /\ score >= 0 /\ score <= 100
    /\ confidence >= 0 /\ confidence <= 1000

\* Lines 159-169: the RiskAssessment built from the parsed or fallback dict.
AssessmentFromData(data, text) ==
    IF LevelOf(data) = None THEN Raised("AttributeError")
    ELSE IF ScoreOf(data) = None THEN Raised("ValueError")
    ELSE IF ConfidenceOf(data) = None THEN Raised("ValueError")
    ELSE LET score == Min(100, Max(0, Get(ScoreOf(data))))
             confidence == Get(ConfidenceOf(data))
         IN  IF ~ValidAssessment(data, score, confidence)
             THEN Raised("ValidationError")
             ELSE Returned([risk_level |-> Get(LevelOf(data)),
                            risk_score |-> score,
                            hazards |-> ListOf(data.hazards),
                            recommendations |-> ListOf(data.recommendations),
                            reasoning |-> Rendered(text),
                            confidence_score |-> confidence])

\* Lines 149-169: the body of the try block.
ParseBody(text) ==
    IF BraceSpan(text) = None
    THEN AssessmentFromData(_fallback_parse(text), text)
    ELSE IF JsonLoads(Get(BraceSpan(text))) = None
    THEN Raised("JSONDecodeError")
    ELSE AssessmentFromData(Get(JsonLoads(Get(BraceSpan(text)))), text)

\* Lines 170-177: the except Exception handler's RiskAssessment.
ParseDefault(text) ==
    [risk_level |-> "MODERATE", risk_score |-> 50, hazards |-> <<>>,
     recommendations |-> <<>>, reasoning |-> Rendered(text),
     confidence_score |-> 500]

\* risk_analysis_agent.py lines 147-177
_parse_llm_response(text, context) ==
    IF ParseBody(text).raised
    THEN Returned(ParseDefault(text))
    ELSE ParseBody(text)

(***************************************************************************)
(* Sample reasoning responses.                                              *)
(***************************************************************************)
\* The keys of RISK_THRESHOLDS, and with them the UNKNOWN of line 42.
ThresholdLevels == {"LOW", "MODERATE", "HIGH", "SEVERE"}

RiskLevels == ThresholdLevels \cup {"UNKNOWN"}

TwoItems == <<"High waves", "Strong winds">>

SixItems == <<"h1", "h2", "h3", "h4", "h5", "h6">>

LevelValues ==
    {Absent, JStr("low"), JStr("LOW"), JStr("Moderate"), JStr("high"),
     JStr("SEVERE"), JStr("extreme"), JStr("unknown"), JStr(" low"),
     JNum(5), JNull}

ScoreValues ==
    {Absent, JNum(-10), JNum(0), JNum(10), JNum(30), JNum(65), JNum(100),
     JNum(150), JStr("75"), JStr("abc"), JNull, JTrue}

ListValues ==
    {Absent, JList(<<>>), JList(TwoItems), JList(SixItems), JBadList,
     JStr("High waves"), JNull}

ConfidenceValues ==
    {Absent, JNum(0), JNum(85), JNum(100), JNum(150), JNum(-5), JStr("abc"),
     JStr("90"), JNull}

\* The object the analysis prompt asks for.
BaseObj ==
    [EmptyObj EXCEPT !.risk_level = JStr("high"), !.risk_score = JNum(65),
                     !.hazards = JList(TwoItems),
                     !.recommendations = JList(TwoItems),
                     !.confidence = JNum(85)]

LowObj == [BaseObj EXCEPT !.risk_level = JStr("LOW"), !.risk_score = JNum(10)]

SampleObjs ==
    {[BaseObj EXCEPT !.risk_level = lv, !.risk_score = sc] :
        lv \in LevelValues, sc \in ScoreValues}
    \cup {[EmptyObj EXCEPT !.risk_level = lv, !.risk_score = sc] :
        lv \in LevelValues, sc \in {Absent, JStr("75")}}
    \cup {[o EXCEPT !.hazards = h] : o \in {BaseObj, LowObj}, h \in ListValues}
    \cup {[o EXCEPT !.recommendations = r] : o \in {BaseObj, LowObj}, r \in ListValues}
    \cup {[o EXCEPT !.confidence = c] : o \in {BaseObj, LowObj}, c \in ConfidenceValues}

Words(ws) == [i \in 1..Len(ws) |-> Word(ws[i])]

\* Texts without any brace.
ProseTexts ==
    {Words(ws) : ws \in
        {<<>>, <<"severe", "weather", "ahead">>, <<"SEVERE", "seas">>,
         <<"Severe">>, <<"severely">>, <<"high", "risk">>, <<"High", "RISK">>,
         <<"high", "seas">>, <<"risk">>, <<"higher", "risky">>, <<"low", "risk">>,
         <<"caution">>, <<"Caution", "ahead">>, <<"precautionary">>,
         <<"calm", "seas">>, <<"moderate">>,
         <<"caution", "high", "risk", "severe">>, <<"caution", "high", "risk">>,
         <<"caution", "high">>}}

\* Texts with braces in which no { is followed by a }.
UnbalancedTexts ==
    {<<LBrace>>, <<RBrace>>,
     <<LBrace, Word("severe"), Word("weather")>>,
     <<LBrace, Word("calm")>>,
     <<Word("caution"), RBrace>>,
     <<RBrace, Word("high"), Word("risk"), LBrace>>,
     <<LBrace, Obj(BaseObj)>>,
     <<LBrace, Obj(LowObj)>>,
     <<LBrace, Obj([BaseObj EXCEPT !.risk_level = JStr("SEVERE")])>>}

\* Texts whose brace span is not a JSON document.
NonJsonSpanTexts ==
    {<<LBrace, Word("severe"), Word("weather"), Word("ahead"), RBrace>>,
     <<LBrace, Word("high"), Word("risk"), RBrace>>,
     <<LBrace, Word("caution"), RBrace>>,
     <<LBrace, Word("calm"), RBrace>>,
     <<Word("severe"), LBrace, Word("calm"), RBrace>>,
     <<LBrace, Obj(BaseObj), RBrace, RBrace>>,
     <<LBrace, LBrace, Obj(BaseObj), RBrace>>,
     <<LBrace, Obj(LowObj), RBrace, Word("and"), LBrace, Obj(BaseObj), RBrace>>,
     <<LBrace, Obj(BaseObj), Word("severe"), RBrace>>}

\* Texts whose brace span is one JSON object, bare or inside prose.
JsonTexts ==
    {<<LBrace, Obj(o), RBrace>> : o \in SampleObjs}
    \cup {<<LBrace, RBrace>>,
          <<Word("the"), Word("risk"), Word("is"), LBrace, Obj(BaseObj), RBrace>>,
          <<LBrace, Obj(LowObj), RBrace, Word("severe"), Word("caution")>>,
          <<RBrace, Word("severe"), LBrace, Obj(LowObj), RBrace>>}

AnalysisTexts == ProseTexts \cup UnbalancedTexts \cup NonJsonSpanTexts \cup JsonTexts

(***************************************************************************)
(* InterpreterSpec: one call of _parse_llm_response on a chosen text.       *)
(***************************************************************************)
InterpreterInit ==
    /\ response_text \in {Some(t) : t \in AnalysisTexts}
    /\ parsed = None
    /\ measurements = None
    /\ classified = None
    /\ PipelineIdle
    /\ ComposerIdle

Parse ==
    /\ parsed = None
    /\ parsed' = Some(_parse_llm_response(Get(response_text), NoContext))
    /\ UNCHANGED <<response_text, classifierVars, pipelineVars, composerVars>>

InterpreterNext == Parse

InterpreterSpec == InterpreterInit /\ [][InterpreterNext]_vars

(***************************************************************************)
(* C8: for any malformed or non-JSON response text (no braces, unbalanced   *)
(* braces, braces around non-JSON text, JSON of the wrong shape)            *)
(* _parse_llm_response never raises and returns a RiskAssessment whose      *)
(* riskLevel is one of LOW, MODERATE, HIGH, SEVERE, UNKNOWN and whose       *)
(* riskScore is within [0,100].                                             *)
(* A JSON object has the wrong shape when one of the five keys the prompt   *)
(* asks for is missing or holds a value of another JSON type than asked:    *)
(* risk_level a string, risk_score and confidence numbers, hazards and      *)
(* recommendations lists of strings.                                        *)
(***************************************************************************)
C8_NoBraces(text) == \A i \in 1..Len(text) : text[i].kind \notin {"lbrace", "rbrace"}

C8_UnbalancedBraces(text) == ~C8_NoBraces(text) /\ BraceSpan(text) = None

C8_BracesAroundNonJson(text) ==
    BraceSpan(text) # None /\ JsonLoads(Get(BraceSpan(text))) = None

C8_WrongShape(text) ==
    /\ BraceSpan(text) # None
    /\ JsonLoads(Get(BraceSpan(text))) # None
    /\ LET o == Get(JsonLoads(Get(BraceSpan(text))))
       IN  \/ o.risk_level.t # "str"
           \/ o.risk_score.t # "num"
           \/ o.hazards.t # "list"
           \/ o.recommendations.t # "list"
           \/ o.confidence.t # "num"

C8_Malformed(text) ==
    \/ C8_NoBraces(text)
    \/ C8_UnbalancedBraces(text)
    \/ C8_BracesAroundNonJson(text)
    \/ C8_WrongShape(text)

C8_MalformedNeverRaisesAndStaysInEnum ==
    (IsSome(parsed) /\ C8_Malformed(Get(response_text))) =>
        /\ ~Get(parsed).raised
        /\ Get(parsed).value.risk_level \in RiskLevels
        /\ Get(parsed).value.risk_score >= 0
        /\ Get(parsed).value.risk_score <= 100

\* The part of C8 the code keeps: no raise and a score within [0,100] on
\* every text, and a level of the enumeration on every text that is not a
\* JSON object carrying a risk_level string.
C8_NeverRaisesScoreInRange ==
    IsSome(parsed) =>
        /\ ~Get(parsed).raised
        /\ Get(parsed).value.risk_score >= 0
        /\ Get(parsed).value.risk_score <= 100
        /\ (\/ C8_NoBraces(Get(response_text))
            \/ C8_UnbalancedBraces(Get(response_text))
            \/ C8_BracesAroundNonJson(Get(response_text)))
              => Get(parsed).value.risk_level \in RiskLevels

(***************************************************************************)
(* C10: whenever the response cannot be parsed as structured data (total    *)
(* parse failure, whether or not the text contains braces) the interpreter  *)
(* applies the keyword heuristic to the lowercased text: "severe" gives     *)
(* SEVERE/80; else "high" and "risk" give HIGH/65; else "caution" gives     *)
(* MODERATE/45; otherwise MODERATE/50; confidence 0.5 in all four cases.    *)
(***************************************************************************)
C10_Unparseable(text) ==
    \/ BraceSpan(text) = None
    \/ JsonLoads(Get(BraceSpan(text))) = None

C10_HeuristicLevel(text) ==
    CASE Mentions(text, "severe") -> "SEVERE"
      [] ~Mentions(text, "severe") /\ Mentions(text, "high") /\ Mentions(text, "risk") -> "HIGH"
      [] OTHER -> "MODERATE"

C10_HeuristicScore(text) ==
    CASE Mentions(text, "severe") -> 80
      [] ~Mentions(text, "severe") /\ Mentions(text, "high") /\ Mentions(text, "risk") -> 65
      [] /\ ~Mentions(text, "severe")
         /\ ~(Mentions(text, "high") /\ Mentions(text, "risk"))
         /\ Mentions(text, "caution") -> 45
      [] OTHER -> 50

C10_HeuristicOnEveryParseFailure ==
    (IsSome(parsed) /\ C10_Unparseable(Get(response_text))) =>
        /\ ~Get(parsed).raised
        /\ Get(parsed).value.risk_level = C10_HeuristicLevel(Get(response_text))
        /\ Get(parsed).value.risk_score = C10_HeuristicScore(Get(response_text))
        /\ Get(parsed).value.confidence_score = 500

\* The part of C10 the code keeps: the heuristic on every text without a
\* brace span, and scenario 3.
C10_HeuristicWithoutBraceSpan ==
    (IsSome(parsed) /\ BraceSpan(Get(response_text)) = None) =>
        /\ ~Get(parsed).raised
        /\ Get(parsed).value.risk_level = C10_HeuristicLevel(Get(response_text))
        /\ Get(parsed).value.risk_score = C10_HeuristicScore(Get(response_text))
        /\ Get(parsed).value.confidence_score = 500

(***************************************************************************)
(* Collaborators.                                                           *)
(*                                                                         *)
(* bedrock_client.invoke_model returns a text or raises (aws_services.py    *)
(* lines 88-93 re-raise every exception).  s3_client.put_object stores the  *)
(* object and returns True, or catches a ClientError and returns False      *)
(* (lines 165-167); any other exception of the call (missing credentials,   *)
(* unreachable endpoint, a value json.dumps cannot encode) leaves it.       *)
(***************************************************************************)
LlmText(t) == [raised |-> FALSE, exc |-> "", text |-> t]

LlmError(e) == [raised |-> TRUE, exc |-> e, text |-> <<>>]

LlmErrors == {LlmError("ThrottlingException"), LlmError("Read timeout")}

PutOutcomes == {"stored", "client_error", "raises"}

\* S3Client.put_object: the exception message when the call raises, else None.
PutObject(outcome) ==
    IF outcome = "raises" THEN Some("Unable to locate credentials") ELSE None

(***************************************************************************)
(* Location resolution: SupervisorAgent._extract_location_from_query.       *)
(* Coordinates are integers in ten-thousandths of a degree.                 *)
(***************************************************************************)
DefaultLocation ==
    [latitude |-> -339249, longitude |-> 184241,
     name |-> Some("Cape Town, South Africa (default)")]

\* LocationData(latitude=data["latitude"], longitude=data["longitude"],
\* name=data.get("location_name", "Unknown")), lines 156-160: a missing
\* coordinate is a KeyError, a coordinate that is no number or a name that is
\* neither a string nor null is a ValidationError (schemas.py lines 8-12
\* state no range for the coordinates).  None when it raises.
LocationFromData(data) ==
    IF data.latitude.t = "absent" \/ data.longitude.t = "absent" THEN None
    ELSE IF Float(data.latitude) = None \/ Float(data.longitude) = None THEN None
    ELSE IF data.location_name.t \notin {"absent", "str", "null"} THEN None
    ELSE Some([latitude |-> Get(Float(data.latitude)),
               longitude |-> Get(Float(data.longitude)),
               name |-> CASE data.location_name.t = "absent" -> Some("Unknown")
                          [] data.location_name.t = "str" -> Some(data.location_name.s)
                          [] OTHER -> None])

\* The extraction returning None, as its signature allows, where lines
\* 164-169 return the default.
ExtractLocationOrNone(llm) ==
    IF llm.raised THEN None
    ELSE IF BraceSpan(llm.text) = None THEN None
    ELSE IF JsonLoads(Get(BraceSpan(llm.text))) = None THEN None
    ELSE LocationFromData(Get(JsonLoads(Get(BraceSpan(llm.text)))))

\* supervisor_agent.py lines 123-169
_extract_location_from_query(llm) ==
    IF llm.raised THEN Some(DefaultLocation)
    ELSE IF BraceSpan(llm.text) = None THEN Some(DefaultLocation)
    ELSE IF JsonLoads(Get(BraceSpan(llm.text))) = None THEN Some(DefaultLocation)
    ELSE IF LocationFromData(Get(JsonLoads(Get(BraceSpan(llm.text))))) = None
    THEN Some(DefaultLocation)
    ELSE LocationFromData(Get(JsonLoads(Get(BraceSpan(llm.text)))))

(***************************************************************************)
(* DataIngestionAgent.execute (data_ingestion_agent.py lines 19-58).        *)
(* DataFetcher.fetch_all_data cannot raise: each fetch turns every          *)
(* exception into None (data_fetcher.py lines 68-70, 107-109).  The only    *)
(* call of the try block that can raise is the audit put.                   *)
(***************************************************************************)
DataIngestionExecute(loc, weather, ocean, put) ==
    IF PutObject(put) # None
    THEN [location |-> loc, weather_data |-> None, ocean_data |-> None,
          error |-> PutObject(put)]
    ELSE [location |-> loc, weather_data |-> weather, ocean_data |-> ocean,
          error |-> None]

\* An error test that never sees the error.
HasErrorIgnored(result) == FALSE

\* `if ingestion_result.error:` (supervisor_agent.py line 65,
\* risk_analysis_agent.py line 40): the error is an Optional[str], and the
\* empty message is falsy.
HasError(result) == result.error # None /\ result.error # Some("")

(***************************************************************************)
(* RiskAnalysisAgent.execute (risk_analysis_agent.py lines 28-108).         *)
(***************************************************************************)
\* Lines 40-46: the assessment returned for an ingestion result with an error.
UnknownAssessment ==
    [risk_level |-> "UNKNOWN", risk_score |-> 0, hazards |-> <<>>,
     recommendations |-> <<>>,
     reasoning |-> <<"Unable to assess: data ingestion failed">>,
     confidence_score |-> 0]

\* The handler of lines 101-108 returning the same assessment as lines 40-46.
CautionAssessmentAsUnknown(e) == UnknownAssessment

\* Lines 101-108: the except Exception handler's assessment.
CautionAssessment(e) ==
    [risk_level |-> "HIGH", risk_score |-> 75, hazards |-> <<>>,
     recommendations |-> <<>>,
     reasoning |-> <<"Error in risk assessment: ", e, ". Defaulting to caution.">>,
     confidence_score |-> 300]

\* Lines 56-73: the analysis prompt, a literal without placeholders.
AnalysisPrompt ==
    <<"Based on the marine conditions provided, analyze the maritime safety risk.",
      "Format response as JSON with keys: risk_level, risk_score, hazards, recommendations, confidence">>

\* Lines 48-99: the try block; a Result.  The context is built first (it
\* cannot raise on a result without error), the reasoning service is invoked
\* with AnalysisPrompt and answers llm, and the parser is handed the context
\* next to the response text.
RiskAnalysisBody(result, llm, put) ==
    LET context == _build_analysis_context(result)
        assessment == _parse_llm_response(llm.text, context)
    IN  IF llm.raised THEN Raised(llm.exc)
        ELSE IF assessment.raised THEN Raised(assessment.exc)
        ELSE IF PutObject(put) # None THEN Raised(Get(PutObject(put)))
        ELSE assessment

\* execute with the threshold classifier standing in for the reasoning
\* service whenever both measurements are there.
RiskAnalysisExecuteClassifying(result, llm, put) ==
    IF HasError(result) THEN Returned(UnknownAssessment)
    ELSE IF result.weather_data # None /\ result.ocean_data # None
    THEN LET c == classify_risk_from_conditions(
                      Get(result.weather_data).wave_height,
                      Get(result.weather_data).wind_speed,
                      current_velocity_magnitude(Get(result.ocean_data)),
                      Get(result.weather_data).visibility)
         IN  Returned([risk_level |-> c.risk_level, risk_score |-> c.risk_score,
                       hazards |-> c.hazards, recommendations |-> <<>>,
                       reasoning |-> <<>>, confidence_score |-> 500])
    ELSE IF RiskAnalysisBody(result, llm, put).raised
    THEN Returned(CautionAssessment(RiskAnalysisBody(result, llm, put).exc))
    ELSE RiskAnalysisBody(result, llm, put)

RiskAnalysisExecute(result, llm, put) ==
    IF HasError(result) THEN Returned(UnknownAssessment)
    ELSE IF RiskAnalysisBody(result, llm, put).raised
    THEN Returned(CautionAssessment(RiskAnalysisBody(result, llm, put).exc))
    ELSE RiskAnalysisBody(result, llm, put)

(***************************************************************************)
(* AlertGenerationAgent (alert_generation_agent.py).                        *)
(***************************************************************************)
\* The mapping with INFORMATIONAL as the default of mapping.get.
MapRiskDefaultingToInformational(risk_level) ==
    CASE Upper(risk_level) = "MODERATE" -> "ADVISORY"
      [] Upper(risk_level) = "HIGH" -> "WARNING"
      [] Upper(risk_level) = "SEVERE" -> "URGENT"
      [] OTHER -> "INFORMATIONAL"

\* Lines 59-68: mapping.get(risk_level.upper(), "ADVISORY").
_map_risk_to_alert_level(risk_level) ==
    CASE Upper(risk_level) = "LOW" -> "INFORMATIONAL"
      [] Upper(risk_level) = "MODERATE" -> "ADVISORY"
      [] Upper(risk_level) = "HIGH" -> "WARNING"
      [] Upper(risk_level) = "SEVERE" -> "URGENT"
      [] OTHER -> "ADVISORY"

\* level_descriptions.get(alert_level, ""), lines 77-84
LevelDescription(alert_level) ==
    CASE alert_level = "INFORMATIONAL" -> "Safe conditions for all vessel types."
      [] alert_level = "ADVISORY" -> "Proceed with caution."
      [] alert_level = "WARNING" -> "Challenging conditions."
      [] alert_level = "URGENT" -> "Hazardous conditions."
      [] OTHER -> ""

\* items[:n]
FirstN(items, n) == SubSeq(items, 1, Min(n, Len(items)))

MaxListed == 5

\* Lines 70-113: the message as the sequence of its parts.
_compose_alert_message(assessment, alert_level) ==
    <<alert_level, " - Maritime Safety Alert", LevelDescription(alert_level)>>
        \o assessment.reasoning
        \o (IF assessment.hazards # <<>> THEN <<"IDENTIFIED HAZARDS:">> ELSE <<>>)
        \o FirstN(assessment.hazards, MaxListed)
        \o (IF assessment.recommendations # <<>> THEN <<"RECOMMENDATIONS:">> ELSE <<>>)
        \o FirstN(assessment.recommendations, MaxListed)
        \o <<"VALIDITY PERIOD: Next 24 hours">>

NoAlert ==
    [alert_level |-> "", risk_score |-> 0, alert_text |-> <<>>,
     metrics |-> None, validity_period |-> 0]

AlertRaised(e) == [raised |-> TRUE, exc |-> e, value |-> NoAlert]

\* Lines 31-48: the try block.  Every value of a validated RiskAssessment
\* passes it; an exception in it is one the runtime raises (MemoryError
\* while the message is built), the compose outcome "raises".
AlertBody(assessment, compose) ==
    IF compose = "raises" THEN AlertRaised("MemoryError")
    ELSE Returned([alert_level |-> _map_risk_to_alert_level(assessment.risk_level),
                   risk_score |-> assessment.risk_score,
                   alert_text |-> _compose_alert_message(assessment,
                                     _map_risk_to_alert_level(assessment.risk_level)),
                   metrics |-> Some([risk_level |-> assessment.risk_level,
                                     confidence |-> assessment.confidence_score,
                                     hazards_count |-> Len(assessment.hazards),
                                     recommendations_count |->
                                         Len(assessment.recommendations)]),
                   validity_period |-> 24])

\* A handler that passes nothing but an empty advisory on.
DegradedAlertSilent ==
    [alert_level |-> "ADVISORY", risk_score |-> 0, alert_text |-> <<>>,
     metrics |-> None, validity_period |-> 24]

\* Lines 52-57: the alert of the except handler (metrics is the default {}).
DegradedAlert ==
    [alert_level |-> "WARNING", risk_score |-> 50,
     alert_text |-> <<"Unable to generate alert. Recommend caution and contact authorities.">>,
     metrics |-> None, validity_period |-> 24]

\* execute without its except handler: an exception of the block leaves it.
AlertExecuteUnguarded(assessment, compose) == AlertBody(assessment, compose)

\* Lines 18-57
AlertExecute(assessment, compose) ==
    IF AlertBody(assessment, compose).raised THEN Returned(DegradedAlert)
    ELSE AlertBody(assessment, compose)

ComposeOutcomes == {"ok", "raises"}

(***************************************************************************)
(* SupervisorAgent._synthesize_response (supervisor_agent.py lines 171-210) *)
(***************************************************************************)
\* The except branch returning no text instead of the alert text.
SynthesizeWithoutFallback(llm, alert_value) ==
    IF llm.raised THEN <<>> ELSE llm.text

_synthesize_response(llm, alert_value) ==
    IF llm.raised THEN alert_value.alert_text ELSE llm.text

(***************************************************************************)
(* Inputs of the pipeline.                                                  *)
(***************************************************************************)
Durban == [latitude |-> -298587, longitude |-> 310218, name |-> Some("Durban")]

\* MaritimeSafetyQuery (schemas.py lines 73-77)
Queries ==
    {[query |-> "Is it safe to sail?", location |-> loc, session_id |-> sid] :
        loc \in {None, Some(Durban)}, sid \in {None, Some("session-1")}}

LocationObj(name, lat, lon) ==
    [EmptyObj EXCEPT !.location_name = name, !.latitude = lat, !.longitude = lon]

\* Outcomes of the extraction call.
ExtractionOutcomes ==
    LlmErrors
    \cup {LlmText(Words(<<"no", "location">>)),
          LlmText(<<LBrace, Obj(LocationObj(JStr("Durban"), JNum(-298587), JNum(310218))), RBrace>>),
          LlmText(<<LBrace, Obj(LocationObj(Absent, JNum(-298587), JNum(310218))), RBrace>>),
          LlmText(<<LBrace, Obj(LocationObj(JNull, JNum(950000), JNum(-2000000))), RBrace>>),
          LlmText(<<LBrace, Obj(LocationObj(JStr("Durban"), Absent, JNum(310218))), RBrace>>),
          LlmText(<<LBrace, Obj(LocationObj(JStr("Durban"), JNum(-298587), Absent)), RBrace>>),
          LlmText(<<LBrace, Obj(LocationObj(JStr("Durban"), JStr("abc"), JNum(310218))), RBrace>>),
          LlmText(<<LBrace, Word("Durban"), RBrace>>)}

\* WeatherData and OceanData as the fetchers build them, or None.
WeatherOutcomes ==
    {None, Some([wave_height |-> 45, wind_speed |-> 450, visibility |-> 5])}

OceanOutcomes ==
    {None, Some([current_velocity_u |-> 3, current_velocity_v |-> 4])}

\* Outcomes of the analysis call.
PipelineTexts ==
    {Words(<<>>), Words(<<"severe", "weather", "ahead">>), Words(<<"calm", "seas">>),
     Words(<<"low", "risk">>),
     <<LBrace, Obj(BaseObj)>>,
     <<LBrace, Word("severe"), Word("weather"), Word("ahead"), RBrace>>,
     <<LBrace, Word("calm"), RBrace>>,
     <<LBrace, RBrace>>,
     <<LBrace, Obj(BaseObj), RBrace>>,
     <<LBrace, Obj(LowObj), RBrace>>,
     <<Word("the"), Word("risk"), Word("is"), LBrace, Obj(BaseObj), RBrace>>,
     <<LBrace, Obj([BaseObj EXCEPT !.risk_level = JStr("SEVERE"), !.risk_score = JNum(100)]), RBrace>>,
     <<LBrace, Obj([BaseObj EXCEPT !.risk_level = JStr("extreme")]), RBrace>>,
     <<LBrace, Obj([LowObj EXCEPT !.risk_score = JNum(150)]), RBrace>>,
     <<LBrace, Obj([LowObj EXCEPT !.risk_score = JNum(-10)]), RBrace>>,
     <<LBrace, Obj([LowObj EXCEPT !.risk_score = JStr("abc")]), RBrace>>,
     <<LBrace, Obj([LowObj EXCEPT !.risk_score = JTrue]), RBrace>>,
     <<LBrace, Obj([LowObj EXCEPT !.risk_level = JNull]), RBrace>>,
     <<LBrace, Obj([LowObj EXCEPT !.hazards = JBadList]), RBrace>>,
     <<LBrace, Obj([LowObj EXCEPT !.confidence = JNum(150)]), RBrace>>,
     <<LBrace, Obj([BaseObj EXCEPT !.hazards = JList(SixItems)]), RBrace>>}

AnalysisOutcomes == LlmErrors \cup {LlmText(t) : t \in PipelineTexts}

\* Outcomes of the synthesis call: an exception, a text, the empty text.
SynthesisOutcomes ==
    LlmErrors \cup {LlmText(<<"Conditions are rough; stay in port.">>), LlmText(<<>>)}

(***************************************************************************)
(* Spec: SupervisorAgent.process_query (supervisor_agent.py lines 36-121),  *)
(* one action per stage.  pc is the position of the query in the pipeline;  *)
(* stages records the stages entered, llm_calls the invoke_model calls.     *)
(***************************************************************************)
\* An early return that drops the session id of the query.
ShortResponseWithoutSession(q, text) ==
    [query |-> q.query, response |-> text, alert |-> None,
     data_sources |-> <<>>, agent_traces |-> None, session_id |-> None,
     execution_time_set |-> TRUE]

\* AgentResponse of the early returns and of the outer handler: alert,
\* data_sources and agent_traces keep their defaults.  Every AgentResponse
\* is built with execution_time_seconds=time.time() - start_time.
ShortResponse(q, text) ==
    [query |-> q.query, response |-> text, alert |-> None,
     data_sources |-> <<>>, agent_traces |-> None, session_id |-> q.session_id,
     execution_time_set |-> TRUE]

\* Lines 92-111
FullResponse(q, text, loc, result, assessment, alert_value) ==
    [query |-> q.query, response |-> text, alert |-> Some(alert_value),
     data_sources |-> <<"Copernicus Marine", "Open-Meteo Marine">>,
     agent_traces |->
        Some([ingestion |->
                [location |-> loc,
                 weather_available |-> result.weather_data # None,
                 ocean_available |-> result.ocean_data # None],
              risk_assessment |->
                [risk_level |-> assessment.risk_level,
                 risk_score |-> assessment.risk_score,
                 confidence |-> assessment.confidence_score]]),
     session_id |-> q.session_id,
     execution_time_set |-> TRUE]

\* Lines 113-121: the outer handler's response.
ErrorResponse(q, e) ==
    ShortResponse(q, <<"An error occurred during analysis: ", e>>)

Init ==
    /\ PipelineIdle
    /\ ComposerIdle
    /\ measurements = None
    /\ classified = None
    /\ response_text = None
    /\ parsed = None

\* A call of process_query.
StartQuery ==
    /\ pc = "IDLE"
    /\ \E q \in Queries : query' = Some(q)
    /\ pc' = "START"
    /\ UNCHANGED <<tasks, location, ingestion_result, risk_assessment, alert,
                   synth_text, response, stages, llm_calls, llm_analysis,
                   llm_extraction, llm_synthesis, classifierVars,
                   interpreterVars, composerVars>>

\* Line 51 without `query.location or`: the location is always extracted.
ResolveLocationAlwaysExtracting ==
    /\ pc = "START"
    /\ stages' = Append(stages, "location")
    /\ \E llm \in ExtractionOutcomes :
          /\ location' = _extract_location_from_query(llm)
          /\ llm_calls' = [llm_calls EXCEPT !.extract = @ + 1]
          /\ llm_extraction' = Some(llm)
    /\ pc' = "LOCATION_RESOLVED"
    /\ UNCHANGED <<tasks, query, ingestion_result, risk_assessment, alert, synth_text,
                   response, llm_analysis, llm_synthesis, classifierVars,
                   interpreterVars, composerVars>>

\* Lines 51-59: query.location or the extraction, one invoke_model call.
ResolveLocation ==
    /\ pc = "START"
    /\ stages' = Append(stages, "location")
    /\ \E llm \in ExtractionOutcomes :
          IF Get(query).location # None
          THEN /\ location' = Get(query).location
               /\ UNCHANGED <<llm_calls, llm_extraction>>
          ELSE /\ location' = _extract_location_from_query(llm)
               /\ llm_calls' = [llm_calls EXCEPT !.extract = @ + 1]
               /\ llm_extraction' = Some(llm)
    /\ IF location' = None
       THEN /\ pc' = "FAILED"
            /\ response' = Some(ShortResponse(Get(query),
                  <<"Could not determine location from query. Please provide coordinates or location name.">>))
       ELSE /\ pc' = "LOCATION_RESOLVED"
            /\ UNCHANGED response
    /\ UNCHANGED <<tasks, query, ingestion_result, risk_assessment, alert, synth_text,
                   llm_analysis, llm_synthesis, classifierVars,
                   interpreterVars, composerVars>>

\* Line 61 up to the await of data_fetcher.py 135: execute calls
\* fetch_all_data, which creates both coroutines and hands them to
\* asyncio.gather together.
StartFetches ==
    /\ pc = "LOCATION_RESOLVED"
    /\ stages' = Append(stages, "ingestion")
    /\ tasks' = [weather_task |-> Awaited, ocean_task |-> Awaited,
                 completed |-> <<>>]
    /\ pc' = "INGESTING"
    /\ UNCHANGED <<query, location, ingestion_result, risk_assessment, alert,
                   synth_text, response, llm_calls, llm_analysis,
                   llm_extraction, llm_synthesis, classifierVars,
                   interpreterVars, composerVars>>

\* fetch_open_meteo_data finishes (data_fetcher.py 21-70).
WeatherFetchReturns ==
    /\ pc = "INGESTING"
    /\ tasks.weather_task = Awaited
    /\ \E weather \in WeatherOutcomes :
          tasks' = [tasks EXCEPT !.weather_task = Finished(weather),
                                 !.completed = Append(@, "weather_task")]
    /\ UNCHANGED <<pc, query, location, ingestion_result, risk_assessment,
                   alert, synth_text, response, stages, llm_calls,
                   llm_analysis, llm_extraction, llm_synthesis,
                   classifierVars, interpreterVars, composerVars>>

\* fetch_copernicus_mock_data finishes (data_fetcher.py 73-109).
OceanFetchReturns ==
    /\ pc = "INGESTING"
    /\ tasks.ocean_task = Awaited
    /\ \E ocean \in OceanOutcomes :
          tasks' = [tasks EXCEPT !.ocean_task = Finished(ocean),
                                 !.completed = Append(@, "ocean_task")]
    /\ UNCHANGED <<pc, query, location, ingestion_result, risk_assessment,
                   alert, synth_text, response, stages, llm_calls,
                   llm_analysis, llm_extraction, llm_synthesis,
                   classifierVars, interpreterVars, composerVars>>

\* The results asyncio.gather would hand back in the order of completion.
GatherInCompletionOrder(t) ==
    <<t[t.completed[1]].value, t[t.completed[2]].value>>

\* data_fetcher.py 135-141: asyncio.gather returns the results in the order
\* of its arguments, weather first.
Gather(t) == <<t.weather_task.value, t.ocean_task.value>>

\* The join waiting until both fetches have delivered data: a fetch that
\* failed is waited for forever.
IngestDataAwaitingData ==
    /\ pc = "INGESTING"
    /\ tasks.weather_task.state = "finished"
    /\ tasks.ocean_task.state = "finished"
    /\ tasks.weather_task.value # None
    /\ tasks.ocean_task.value # None
    /\ \E put \in PutOutcomes :
          ingestion_result' = Some(DataIngestionExecute(Get(location),
                                       Gather(tasks)[1], Gather(tasks)[2], put))
    /\ IF HasError(Get(ingestion_result'))
       THEN /\ pc' = "FAILED"
            /\ response' = Some(ShortResponse(Get(query),
                  <<"Data retrieval failed: ", Get(Get(ingestion_result').error)>>))
       ELSE /\ pc' = "DATA_INGESTED"
            /\ UNCHANGED response
    /\ UNCHANGED <<tasks, query, location, risk_assessment, alert, synth_text,
                   stages, llm_calls, llm_analysis, llm_extraction,
                   llm_synthesis, classifierVars, interpreterVars,
                   composerVars>>

\* Lines 61-71, from the return of asyncio.gather: the rest of
\* DataIngestionAgent.execute and the error test of the supervisor.
IngestData ==
    /\ pc = "INGESTING"
    /\ tasks.weather_task.state = "finished"
    /\ tasks.ocean_task.state = "finished"
    /\ \E put \in PutOutcomes :
          ingestion_result' = Some(DataIngestionExecute(Get(location),
                                       Gather(tasks)[1], Gather(tasks)[2], put))
    /\ IF HasError(Get(ingestion_result'))
       THEN /\ pc' = "FAILED"
            /\ response' = Some(ShortResponse(Get(query),
                  <<"Data retrieval failed: ", Get(Get(ingestion_result').error)>>))
       ELSE /\ pc' = "DATA_INGESTED"
            /\ UNCHANGED response
    /\ UNCHANGED <<tasks, query, location, risk_assessment, alert, synth_text,
                   stages, llm_calls, llm_analysis, llm_extraction,
                   llm_synthesis, classifierVars, interpreterVars,
                   composerVars>>

\* Line 75 with the call retried once when the reasoning service raises.
AnalyzeRiskRetrying ==
    /\ pc = "DATA_INGESTED"
    /\ stages' = Append(stages, "risk")
    /\ llm_calls' = [llm_calls EXCEPT !.analyze = @ + 1]
    /\ \E llm \in AnalysisOutcomes, put \in PutOutcomes :
          /\ llm_analysis' = Some(llm)
          /\ risk_assessment' =
                Some(RiskAnalysisExecute(Get(ingestion_result), llm, put).value)
          /\ pc' = IF llm.raised /\ llm_calls.analyze = 0
                   THEN "DATA_INGESTED" ELSE "RISK_ASSESSED"
    /\ UNCHANGED <<tasks, query, location, ingestion_result, alert, synth_text,
                   response, llm_extraction, llm_synthesis, classifierVars,
                   interpreterVars, composerVars>>

\* Lines 73-75: risk_agent.execute, whose try block makes one invoke_model
\* call; an exception leaving execute reaches the handler of lines 113-121.
AnalyzeRisk ==
    /\ pc = "DATA_INGESTED"
    /\ stages' = Append(stages, "risk")
    /\ \E llm \in AnalysisOutcomes, put \in PutOutcomes :
          LET r == RiskAnalysisExecute(Get(ingestion_result), llm, put)
          IN  /\ IF HasError(Get(ingestion_result))
                 THEN UNCHANGED <<llm_calls, llm_analysis>>
                 ELSE /\ llm_calls' = [llm_calls EXCEPT !.analyze = @ + 1]
                      /\ llm_analysis' = Some(llm)
              /\ IF r.raised
                 THEN /\ pc' = "FAILED"
                      /\ response' = Some(ErrorResponse(Get(query), r.exc))
                      /\ UNCHANGED risk_assessment
                 ELSE /\ pc' = "RISK_ASSESSED"
                      /\ risk_assessment' = Some(r.value)
                      /\ UNCHANGED response
    /\ UNCHANGED <<tasks, query, location, ingestion_result, alert, synth_text,
                   llm_extraction, llm_synthesis, classifierVars,
                   interpreterVars, composerVars>>

\* Lines 77-79: alert_agent.execute.
GenerateAlert ==
    /\ pc = "RISK_ASSESSED"
    /\ stages' = Append(stages, "alert")
    /\ \E compose \in ComposeOutcomes :
          LET r == AlertExecute(Get(risk_assessment), compose)
          IN  IF r.raised
              THEN /\ pc' = "FAILED"
                   /\ response' = Some(ErrorResponse(Get(query), r.exc))
                   /\ UNCHANGED alert
              ELSE /\ pc' = "ALERT_GENERATED"
                   /\ alert' = Some(r.value)
                   /\ UNCHANGED response
    /\ UNCHANGED <<tasks, query, location, ingestion_result, risk_assessment,
                   synth_text, llm_calls, llm_analysis, llm_extraction,
                   llm_synthesis, classifierVars, interpreterVars,
                   composerVars>>

\* Lines 81-87: _synthesize_response, one invoke_model call.
SynthesizeResponse ==
    /\ pc = "ALERT_GENERATED"
    /\ stages' = Append(stages, "synthesis")
    /\ llm_calls' = [llm_calls EXCEPT !.synthesize = @ + 1]
    /\ \E llm \in SynthesisOutcomes :
          /\ synth_text' = Some(_synthesize_response(llm, Get(alert)))
          /\ llm_synthesis' = Some(llm)
    /\ pc' = "RESPONSE_SYNTHESIZED"
    /\ UNCHANGED <<tasks, query, location, ingestion_result, risk_assessment, alert,
                   response, llm_analysis, llm_extraction, classifierVars,
                   interpreterVars, composerVars>>

\* Lines 89-111: the AgentResponse of a completed pipeline.
FinishQuery ==
    /\ pc = "RESPONSE_SYNTHESIZED"
    /\ response' = Some(FullResponse(Get(query), Get(synth_text), Get(location),
                                     Get(ingestion_result), Get(risk_assessment),
                                     Get(alert)))
    /\ pc' = "DONE"
    /\ UNCHANGED <<tasks, query, location, ingestion_result, risk_assessment, alert,
                   synth_text, stages, llm_calls, llm_analysis, llm_extraction,
                   llm_synthesis, classifierVars, interpreterVars,
                   composerVars>>

\* process_query has returned; the supervisor keeps nothing of the query
\* (self.sessions is never written) and serves the next one.
NextQuery ==
    /\ pc \in {"DONE", "FAILED"}
    /\ pc' = "IDLE"
    /\ query' = None
    /\ location' = None
    /\ ingestion_result' = None
    /\ risk_assessment' = None
    /\ alert' = None
    /\ synth_text' = None
    /\ response' = None
    /\ stages' = <<>>
    /\ llm_calls' = NoCalls
    /\ llm_analysis' = None
    /\ llm_extraction' = None
    /\ llm_synthesis' = None
    /\ tasks' = NoTasks
    /\ UNCHANGED <<classifierVars, interpreterVars, composerVars>>

Next ==
    \/ StartQuery
    \/ ResolveLocation
    \/ StartFetches
    \/ WeatherFetchReturns
    \/ OceanFetchReturns
    \/ IngestData
    \/ AnalyzeRisk
    \/ GenerateAlert
    \/ SynthesizeResponse
    \/ FinishQuery
    \/ NextQuery

Spec == Init /\ [][Next]_vars

\* process_query is one coroutine: each await returns (every collaborator
\* call returns or raises) and the statement after it runs, so a step that
\* stays possible is taken.
FairSpec == Spec /\ WF_vars(Next)

(***************************************************************************)
(* Properties of the pipeline.                                              *)
(***************************************************************************)
StageOrder == <<"location", "ingestion", "risk", "alert", "synthesis">>

IsPrefix(a, b) == Len(a) <= Len(b) /\ a = SubSeq(b, 1, Len(a))

Contains(text, part) == \E i \in 1..Len(text) : text[i] = part

\* C3: when the ingestion result carries an error, the query is in the FAILED
\* terminal, the response text is "Data retrieval failed: " followed by that
\* error, the response has no alert, and risk analysis, alert generation and
\* synthesis were not entered (no stage entry, no reasoning call, no result).
C3_IngestionErrorEndsInFailed ==
    (IsSome(ingestion_result) /\ Get(ingestion_result).error # None) =>
        /\ pc = "FAILED"
        /\ IsSome(response)
        /\ Get(response).response =
              <<"Data retrieval failed: ", Get(Get(ingestion_result).error)>>
        /\ Get(response).alert = None
        /\ stages = <<"location", "ingestion">>
        /\ llm_calls.analyze = 0 /\ llm_calls.synthesize = 0
        /\ risk_assessment = None /\ alert = None /\ synth_text = None

C3_Witness ==
    /\ pc = "FAILED"
    /\ IsSome(ingestion_result) /\ Get(ingestion_result).error # None
    /\ IsSome(response) /\ Get(response).alert = None

C4_AssessmentAfterError ==
    (IsSome(llm_analysis) /\ Get(llm_analysis).raised) =>
        /\ IsSome(risk_assessment)
        /\ Get(risk_assessment).risk_level = "HIGH"
        /\ Get(risk_assessment).risk_score = 75
        /\ Get(risk_assessment).confidence_score = 300
        /\ Contains(Get(risk_assessment).reasoning, Get(llm_analysis).exc)
        /\ pc \in {"RISK_ASSESSED", "ALERT_GENERATED", "RESPONSE_SYNTHESIZED", "DONE"}
        /\ pc = "DONE" =>
              /\ Contains(stages, "alert")
              /\ Get(response).alert # None

\* C4: when the reasoning call of risk analysis raised, execute returned an
\* assessment HIGH / 75 / confidence 0.3 whose reasoning contains the error
\* text, the query never fails, and it goes on to DONE, through the alert
\* stage, with a response that carries an alert.
C4_AnalysisErrorDefaultsToHigh ==
    /\ []C4_AssessmentAfterError
    /\ (IsSome(llm_analysis) /\ Get(llm_analysis).raised /\ pc = "RISK_ASSESSED")
          ~> (pc = "ALERT_GENERATED")
    /\ (IsSome(llm_analysis) /\ Get(llm_analysis).raised) ~>
          (pc = "DONE" /\ Get(response).alert # None)

C4_Witness ==
    /\ pc = "DONE"
    /\ IsSome(llm_analysis) /\ Get(llm_analysis).raised
    /\ Get(risk_assessment).risk_level = "HIGH"
    /\ Get(response).alert # None

\* C5: the stages entered for a query are a prefix of location, ingestion,
\* risk, alert, synthesis (forward order, each at most once, none re-entered),
\* the position of the query agrees with the stages entered, and each of the
\* three reasoning calls is made at most once.
C5_StagesForwardOnce ==
    /\ IsPrefix(stages, StageOrder)
    /\ llm_calls.extract <= 1 /\ llm_calls.analyze <= 1 /\ llm_calls.synthesize <= 1
    /\ pc \in {"IDLE", "START"} => stages = <<>>
    /\ pc = "LOCATION_RESOLVED" => Len(stages) = 1
    /\ pc = "DATA_INGESTED" => Len(stages) = 2
    /\ pc = "RISK_ASSESSED" => Len(stages) = 3
    /\ pc = "ALERT_GENERATED" => Len(stages) = 4
    /\ pc \in {"RESPONSE_SYNTHESIZED", "DONE"} => stages = StageOrder

C5_Witness ==
    /\ pc = "DONE"
    /\ stages = StageOrder
    /\ llm_calls = [extract |-> 1, analyze |-> 1, synthesize |-> 1]

C6_CompleteUnlessIngestionFailed ==
    /\ pc = "FAILED" =>
          IsSome(ingestion_result) /\ Get(ingestion_result).error # None
    /\ (IsSome(ingestion_result) /\ Get(ingestion_result).error = None) =>
          /\ pc # "FAILED"
          /\ pc = "DONE" =>
                /\ Get(response).alert = alert /\ alert # None
                /\ Get(response).data_sources =
                      <<"Copernicus Marine", "Open-Meteo Marine">>
                /\ Get(response).agent_traces # None

\* C6: a query fails only with an ingestion error; after an ingestion
\* without error the query is never FAILED, whatever the reasoning service,
\* the parsing, the alert composition, the synthesis and the audit store do,
\* it reaches DONE, and at DONE the response carries an alert, the data
\* sources and the trace.
C6_OnlyIngestionFailureTerminates ==
    /\ []C6_CompleteUnlessIngestionFailed
    /\ (pc = "START") ~>
          \/ pc = "DONE"
          \/ /\ pc = "FAILED"
             /\ IsSome(ingestion_result)
             /\ Get(ingestion_result).error # None

\* DONE after the analysis call raised, the alert composition failed and the
\* synthesis call raised.
C6_Witness ==
    /\ pc = "DONE"
    /\ Get(llm_analysis).raised
    /\ alert = Some(DegradedAlert)
    /\ Get(response).response = DegradedAlert.alert_text
    /\ Get(response).alert = alert

\* A value the analysis prompt and RiskAssessment do not allow for its key:
\* a risk_level that is no string, a risk_score that is no number or lies
\* outside [0,100], hazards or recommendations that are no list of strings,
\* a confidence that is no number or lies outside [0,100].
C7_InvalidField(data) ==
    \/ data.risk_level.t \notin {"absent", "str"}
    \/ data.risk_score.t \notin {"absent", "num"}
    \/ data.risk_score.t = "num" /\ (data.risk_score.n < 0 \/ data.risk_score.n > 100)
    \/ data.hazards.t \notin {"absent", "list"}
    \/ data.recommendations.t \notin {"absent", "list"}
    \/ data.confidence.t \notin {"absent", "num"}
    \/ data.confidence.t = "num" /\ (data.confidence.n < 0 \/ data.confidence.n > 100)

\* The values on which lines 159-169 raise.
C7_RejectedField(data) == AssessmentFromData(data, <<>>).raised

\* The analysis call raised, its text has no brace span, or the span is no
\* JSON document.
C7_NoObject ==
    /\ IsSome(llm_analysis)
    /\ \/ Get(llm_analysis).raised
       \/ BraceSpan(Get(llm_analysis).text) = None
       \/ JsonLoads(Get(BraceSpan(Get(llm_analysis).text))) = None

C7_ParsedObject == Get(JsonLoads(Get(BraceSpan(Get(llm_analysis).text))))

C7_NeverLow ==
    /\ IsSome(risk_assessment) => Get(risk_assessment).risk_level # "LOW"
    /\ IsSome(alert) => Get(alert).alert_level # "INFORMATIONAL"

\* C7: when the analysis had no usable structured result (the call raised, no
\* JSON object in the text, a brace span that is no JSON, or a parsed field
\* with an invalid value), the assessment is never LOW and the alert made of
\* it is never INFORMATIONAL.
C7_UnusableResultNeverLow ==
    (/\ IsSome(llm_analysis)
     /\ \/ C7_NoObject
        \/ C7_InvalidField(C7_ParsedObject)) => C7_NeverLow

\* The same for the invalid values that make lines 159-169 raise (not the
\* out-of-range scores, which line 164 clamps, nor the booleans, which
\* float() converts): holds.
C7_FailedParseNeverLow ==
    (/\ IsSome(llm_analysis)
     /\ \/ C7_NoObject
        \/ C7_RejectedField(C7_ParsedObject)) => C7_NeverLow

\* C9: after an ingestion without error, the assessment execute returns has a
\* level among LOW, MODERATE, HIGH, SEVERE and a score within [0,100].
C9_LevelInEnumScoreInRange ==
    (/\ IsSome(ingestion_result) /\ Get(ingestion_result).error = None
     /\ IsSome(risk_assessment)) =>
        /\ Get(risk_assessment).risk_level \in ThresholdLevels
        /\ Get(risk_assessment).risk_score \in 0..100

\* The score half of C9 holds.
C9_ScoreInRange ==
    IsSome(risk_assessment) => Get(risk_assessment).risk_score \in 0..100

(***************************************************************************)
(* Properties of the interpreter on responses that hold a JSON object.      *)
(***************************************************************************)
\* The JSON object of the response text, when its brace span is one.
ParsedObject(text) ==
    IF BraceSpan(text) = None THEN None ELSE JsonLoads(Get(BraceSpan(text)))

\* The object's other keys are as the prompt asks, or absent.
C11_OtherFieldsFine(o) ==
    /\ o.risk_level.t \in {"absent", "str"}
    /\ o.risk_score.t \in {"absent", "num"}
    /\ o.hazards.t \in {"absent", "list"}
    /\ o.recommendations.t \in {"absent", "list"}

\* C11: when the response holds a parseable JSON object, the confidence of
\* the assessment is the provided confidence divided by 100 (in thousandths:
\* ten times the provided number), and 0.7 (700) when the key is absent.
C11_ConfidenceIsHundredthOrDefault ==
    (/\ IsSome(parsed)
     /\ ParsedObject(Get(response_text)) # None
     /\ C11_OtherFieldsFine(Get(ParsedObject(Get(response_text))))) =>
        LET o == Get(ParsedObject(Get(response_text)))
        IN  /\ o.confidence.t = "absent" =>
                  Get(parsed).value.confidence_score = 700
            /\ (o.confidence.t = "num" /\ o.confidence.n \in 0..100) =>
                  Get(parsed).value.confidence_score = 10 * o.confidence.n

\* The half of C11 about a provided confidence holds.
C11_ProvidedConfidenceIsHundredth ==
    (/\ IsSome(parsed)
     /\ ParsedObject(Get(response_text)) # None
     /\ C11_OtherFieldsFine(Get(ParsedObject(Get(response_text))))) =>
        LET o == Get(ParsedObject(Get(response_text)))
        IN  (o.confidence.t = "num" /\ o.confidence.n \in 0..100) =>
                Get(parsed).value.confidence_score = 10 * o.confidence.n

\* What the code does with an absent key: 0.7 / 100.
C11_AbsentConfidenceIsSevenThousandths ==
    (/\ IsSome(parsed)
     /\ ParsedObject(Get(response_text)) # None
     /\ C11_OtherFieldsFine(Get(ParsedObject(Get(response_text))))
     /\ Get(ParsedObject(Get(response_text))).confidence.t = "absent") =>
        Get(parsed).value.confidence_score = 7

\* The object's keys other than risk_level and risk_score are as the prompt
\* asks, or absent.
C12_RestFine(o) ==
    /\ o.hazards.t \in {"absent", "list"}
    /\ o.recommendations.t \in {"absent", "list"}
    /\ o.confidence.t = "absent" \/ (o.confidence.t = "num" /\ o.confidence.n \in 0..100)

\* A risk_score float() reads as a number: JSON numbers and booleans, and
\* numeric strings.
C12_Numeric(v) == Float(v) # None

\* C12: when the response holds a parseable JSON object with a risk_level
\* string, the level of the assessment is that string uppercased whatever
\* the risk_score is: a missing or non-numeric score gives score 50, any
\* other score is clamped to [0,100].
C12_LevelIndependentOfScore ==
    (/\ IsSome(parsed)
     /\ ParsedObject(Get(response_text)) # None
     /\ Get(ParsedObject(Get(response_text))).risk_level.t = "str"
     /\ C12_RestFine(Get(ParsedObject(Get(response_text))))) =>
        LET o == Get(ParsedObject(Get(response_text)))
        IN  /\ Get(parsed).value.risk_level = Upper(o.risk_level.s)
            /\ Get(parsed).value.risk_score =
                  IF C12_Numeric(o.risk_score)
                  THEN Min(100, Max(0, Get(Float(o.risk_score))))
                  ELSE 50

\* C12 for a risk_score that is missing, a number or a boolean: holds.
C12_LevelKeptWhenScoreConverts ==
    (/\ IsSome(parsed)
     /\ ParsedObject(Get(response_text)) # None
     /\ Get(ParsedObject(Get(response_text))).risk_level.t = "str"
     /\ C12_RestFine(Get(ParsedObject(Get(response_text))))
     /\ ScoreOf(Get(ParsedObject(Get(response_text)))) # None) =>
        LET o == Get(ParsedObject(Get(response_text)))
        IN  /\ Get(parsed).value.risk_level = Upper(o.risk_level.s)
            /\ Get(parsed).value.risk_score =
                  Min(100, Max(0, Get(ScoreOf(o))))

\* C13: the assessment the risk-analysis stage returns has a level and a
\* score that agree with the classification table: [0,25) LOW, [25,50)
\* MODERATE, [50,75) HIGH, [75,100] SEVERE.
C13_LevelMatchesScore ==
    IsSome(risk_assessment) =>
        Get(risk_assessment).risk_level =
            RiskLevelOfScore(Get(risk_assessment).risk_score)

\* The keyword matches of _fallback_parse agree with the table: a response
\* without a brace span that mentions "severe", "high" and "risk", or
\* "caution" gets a consistent pair, unless a raising audit put replaced it
\* by the exception default HIGH / 75.
C13_KeywordResultsMatch ==
    (/\ IsSome(risk_assessment) /\ IsSome(llm_analysis)
     /\ ~Get(llm_analysis).raised
     /\ BraceSpan(Get(llm_analysis).text) = None
     /\ \/ Mentions(Get(llm_analysis).text, "severe")
        \/ Mentions(Get(llm_analysis).text, "high") /\ Mentions(Get(llm_analysis).text, "risk")
        \/ Mentions(Get(llm_analysis).text, "caution")
     /\ Get(risk_assessment).risk_level # "HIGH" \/ Get(risk_assessment).risk_score # 75) =>
        Get(risk_assessment).risk_level =
            RiskLevelOfScore(Get(risk_assessment).risk_score)

\* C14: a failed audit put changes nothing the caller sees: the ingestion
\* result is one the run with a stored put returns for the same location
\* (the fetched data, no error), the assessment is the one that run returns
\* for the same reasoning outcome, and the query does not fail.
C14_AuditFailureInvisible ==
    /\ IsSome(ingestion_result) =>
          \E weather \in WeatherOutcomes, ocean \in OceanOutcomes :
              Get(ingestion_result) =
                  DataIngestionExecute(Get(location), weather, ocean, "stored")
    /\ (IsSome(risk_assessment) /\ IsSome(llm_analysis)) =>
          Get(risk_assessment) =
              RiskAnalysisExecute(Get(ingestion_result), Get(llm_analysis), "stored").value
    /\ pc # "FAILED"

\* A put that fails with a ClientError is invisible: both stages return what
\* they return when the object is stored.
C14_ClientErrorInvisible ==
    /\ \A weather \in WeatherOutcomes, ocean \in OceanOutcomes :
          DataIngestionExecute(DefaultLocation, weather, ocean, "client_error") =
              DataIngestionExecute(DefaultLocation, weather, ocean, "stored")
    /\ IsSome(ingestion_result) =>
          \A llm \in AnalysisOutcomes :
              RiskAnalysisExecute(Get(ingestion_result), llm, "client_error") =
                  RiskAnalysisExecute(Get(ingestion_result), llm, "stored")

(***************************************************************************)
(* ComposerSpec: one call of AlertGenerationAgent.execute on a chosen       *)
(* RiskAssessment.  risk_level is any string (schemas.py line 54).          *)
(***************************************************************************)
ComposerLevels == DOMAIN UpperTable

ComposerScores == {0, 24, 65, 100}

ComposerAssessments ==
    {[risk_level |-> lv, risk_score |-> sc, hazards |-> hz,
      recommendations |-> TwoItems,
      reasoning |-> <<"Challenging sea state developing">>,
      confidence_score |-> 850] :
        lv \in ComposerLevels, sc \in ComposerScores,
        hz \in {<<>>, TwoItems, SixItems}}

ComposerInit ==
    /\ composer_input \in
          {Some([assessment |-> a, compose |-> c]) :
              a \in ComposerAssessments, c \in ComposeOutcomes}
    /\ composed = None
    /\ measurements = None
    /\ classified = None
    /\ response_text = None
    /\ parsed = None
    /\ PipelineIdle

Compose ==
    /\ composed = None
    /\ composed' = Some(AlertExecute(Get(composer_input).assessment,
                                     Get(composer_input).compose))
    /\ UNCHANGED <<composer_input, classifierVars, interpreterVars, pipelineVars>>

ComposerNext == Compose

ComposerSpec == ComposerInit /\ [][ComposerNext]_vars

\* C15: the alert level of a composed alert is fixed by the risk level,
\* read without regard to case as line 68 reads it: LOW INFORMATIONAL,
\* MODERATE ADVISORY, HIGH WARNING, SEVERE URGENT, anything else (UNKNOWN
\* too) ADVISORY; only LOW gives INFORMATIONAL.
C15_MappingTotalDefaultAdvisory ==
    (IsSome(composed) /\ Get(composer_input).compose = "ok") =>
        LET lv == Upper(Get(composer_input).assessment.risk_level)
            al == Get(composed).value.alert_level
        IN  /\ lv = "LOW" => al = "INFORMATIONAL"
            /\ lv = "MODERATE" => al = "ADVISORY"
            /\ lv = "HIGH" => al = "WARNING"
            /\ lv = "SEVERE" => al = "URGENT"
            /\ lv \notin ThresholdLevels => al = "ADVISORY"
            /\ al = "INFORMATIONAL" => lv = "LOW"
            /\ al \in {"INFORMATIONAL", "ADVISORY", "WARNING", "URGENT"}

C15_Witness ==
    /\ IsSome(composed)
    /\ Get(composer_input).compose = "ok"
    /\ Get(composer_input).assessment.risk_level = "UNKNOWN"
    /\ Get(composed).value.alert_level = "ADVISORY"

\* C16: execute never raises; when composing fails it returns the degraded
\* alert WARNING / 50 / "Unable to generate alert. Recommend caution and
\* contact authorities.", otherwise an alert with the mapped level and the
\* score of the assessment.
C16_ExecuteNeverRaises ==
    IsSome(composed) =>
        /\ ~Get(composed).raised
        /\ Get(composer_input).compose = "raises" =>
              /\ Get(composed).value.alert_level = "WARNING"
              /\ Get(composed).value.risk_score = 50
              /\ Get(composed).value.alert_text =
                    <<"Unable to generate alert. Recommend caution and contact authorities.">>
        /\ Get(composer_input).compose = "ok" =>
              /\ Get(composed).value.alert_level =
                    _map_risk_to_alert_level(Get(composer_input).assessment.risk_level)
              /\ Get(composed).value.risk_score =
                    Get(composer_input).assessment.risk_score

C16_Witness ==
    /\ IsSome(composed)
    /\ Get(composer_input).compose = "raises"
    /\ Get(composer_input).assessment.risk_level = "LOW"
    /\ Get(composed).value.alert_level = "WARNING"
    /\ Get(composed).value.risk_score = 50

\* The alert, the data sources and the trace of the response are those of
\* the response built with the text the synthesis outcome llm gives.
C17_SameButText(llm) ==
    [Get(response) EXCEPT !.response = <<>>] =
        [FullResponse(Get(query), _synthesize_response(llm, Get(alert)),
                      Get(location), Get(ingestion_result),
                      Get(risk_assessment), Get(alert))
            EXCEPT !.response = <<>>]

C17_AlertTextAfterSynthesisError ==
    (IsSome(llm_synthesis) /\ Get(llm_synthesis).raised) =>
        /\ pc \in {"RESPONSE_SYNTHESIZED", "DONE"}
        /\ synth_text = Some(Get(alert).alert_text)
        /\ pc = "DONE" =>
              /\ Get(response).alert = alert
              /\ Get(response).response = Get(Get(response).alert).alert_text
              /\ Get(response).data_sources =
                    <<"Copernicus Marine", "Open-Meteo Marine">>
              /\ Get(response).agent_traces # None
              /\ \A llm \in SynthesisOutcomes : C17_SameButText(llm)

\* C17: when the synthesis call raised, the query still reaches DONE, the
\* response text is the alert text of the alert the response carries, and
\* alert, data sources and trace are what they are when synthesis succeeds.
C17_SynthesisFailureFallsBackToAlertText ==
    /\ []C17_AlertTextAfterSynthesisError
    /\ (IsSome(llm_synthesis) /\ Get(llm_synthesis).raised) ~> (pc = "DONE")

C17_Witness ==
    /\ pc = "DONE"
    /\ IsSome(llm_synthesis) /\ Get(llm_synthesis).raised
    /\ Get(response).response = Get(alert).alert_text
    /\ Get(response).alert = alert
    /\ Get(alert).alert_level = "URGENT"

\* C18: when the query carries a location, no extraction call is made, and
\* that location is the resolved one, the one of the ingestion result and
\* the one of the trace.
C18_ExplicitLocationUsedVerbatim ==
    (IsSome(query) /\ Get(query).location # None) =>
        /\ llm_calls.extract = 0
        /\ llm_extraction = None
        /\ IsSome(location) => location = Get(query).location
        /\ IsSome(ingestion_result) =>
              Get(ingestion_result).location = Get(Get(query).location)
        /\ pc = "DONE" =>
              Get(Get(response).agent_traces).ingestion.location =
                  Get(Get(query).location)

C18_Witness ==
    /\ pc = "DONE"
    /\ Get(query).location = Some(Durban)
    /\ Get(ingestion_result).location = Durban
    /\ Get(Get(response).agent_traces).ingestion.location = Durban
    /\ llm_calls = [extract |-> 0, analyze |-> 1, synthesize |-> 1]

\* The extraction call gave no usable location: it raised, its text has no
\* brace span, the span is no JSON, or latitude or longitude is missing.
C19_ExtractionFailed ==
    /\ IsSome(llm_extraction)
    /\ \/ Get(llm_extraction).raised
       \/ ParsedObject(Get(llm_extraction).text) = None
       \/ Get(ParsedObject(Get(llm_extraction).text)).latitude.t = "absent"
       \/ Get(ParsedObject(Get(llm_extraction).text)).longitude.t = "absent"

C19_LocationAfterExtraction ==
    IsSome(llm_extraction) =>
        /\ IsSome(location)
        /\ C19_ExtractionFailed =>
              /\ Get(location).latitude = -339249
              /\ Get(location).longitude = 184241
              /\ Get(location).name = Some("Cape Town, South Africa (default)")
        /\ pc # "START"
        /\ pc = "FAILED" =>
              IsSome(ingestion_result) /\ Get(ingestion_result).error # None

C20_CoordinatesInRange ==
    IsSome(ingestion_result) =>
        /\ Get(ingestion_result).location.latitude \in -900000..900000
        /\ Get(ingestion_result).location.longitude \in -1800000..1800000

\* The default location of lines 164-169 is within the ranges.
C20_DefaultInRange ==
    (IsSome(ingestion_result) /\ C19_ExtractionFailed) =>
        /\ Get(ingestion_result).location.latitude \in -900000..900000
        /\ Get(ingestion_result).location.longitude \in -1800000..1800000

\* A text is plain text: a sequence of strings.
IsText(t) == DOMAIN t = 1..Len(t)

C21_ResultOnEveryPath ==
    /\ pc \in {"DONE", "FAILED"} =>
          /\ IsSome(response)
          /\ Get(response).query = Get(query).query
          /\ Get(response).session_id = Get(query).session_id
          /\ Get(response).execution_time_set
          /\ IsText(Get(response).response)
    /\ pc = "FAILED" =>
          /\ Get(response).alert = None
          /\ Len(Get(response).response) = 2
          /\ Get(response).response[1] \in
                {"Data retrieval failed: ", "An error occurred during analysis: "}

\* C21: process_query returns a result on every path: once the query has
\* started it reaches DONE or FAILED, and there the response holds the query
\* text and the session id of the query and an execution time, and a
\* failure is told in the response text.
C21_NeverRaisesAlwaysReturnsResult ==
    /\ []C21_ResultOnEveryPath
    /\ (pc = "START") ~> (pc \in {"DONE", "FAILED"} /\ IsSome(response))

C21_Witness ==
    /\ pc = "FAILED"
    /\ Get(query).session_id = Some("session-1")
    /\ Get(response).session_id = Some("session-1")
    /\ Get(response).response[1] = "Data retrieval failed: "

\* C22: the response text of the returned result is never empty.
C22_ResponseTextNonEmpty ==
    pc \in {"DONE", "FAILED"} => Get(response).response # <<>>

\* The same unless the synthesis call returned the empty text: holds.
C22_NonEmptyUnlessSynthesisEmpty ==
    (/\ pc \in {"DONE", "FAILED"}
     /\ llm_synthesis # Some(LlmText(<<>>))) => Get(response).response # <<>>

\* The visibility contribution as the table of penalties states it, with the
\* range 1.0-5.0 NM closed at both ends.
C23_StatedPenalty(v) == IF v < 10 THEN 25 ELSE IF v <= 50 THEN 15 ELSE 0

C23_StatedHazards(v) ==
    IF v < 10 THEN <<"Poor visibility (<1 NM)">>
    ELSE IF v <= 50 THEN <<"Moderate visibility (1-5 NM)">>
    ELSE <<>>

C23_StatedResult(m) ==
    [risk_score |-> Min(100, WavePenalty(m.wave_height)
                               + WindPenalty(m.wind_speed)
                               + CurrentPenalty(m.current_velocity)
                               + C23_StatedPenalty(m.visibility)),
     hazards    |-> WaveHazards(m.wave_height) \o WindHazards(m.wind_speed)
                      \o CurrentHazards(m.current_velocity)
                      \o C23_StatedHazards(m.visibility)]

\* C23: visibility adds +25 and the poor-visibility hazard below 1.0 NM, +15
\* and the moderate-visibility hazard from 1.0 NM to 5.0 NM with both ends
\* included, and nothing above 5.0 NM.
C23_VisibilityBuckets ==
    IsSome(classified) =>
        /\ Get(classified).risk_score = C23_StatedResult(Get(measurements)).risk_score
        /\ Get(classified).hazards = C23_StatedResult(Get(measurements)).hazards

\* The same away from exactly 5.0 NM: holds.
C23_VisibilityBucketsExceptFive ==
    (IsSome(classified) /\ Get(measurements).visibility # 50) =>
        /\ Get(classified).risk_score = C23_StatedResult(Get(measurements)).risk_score
        /\ Get(classified).hazards = C23_StatedResult(Get(measurements)).hazards

\* C24: the alert level of the classifier's risk level is URGENT exactly
\* when the score is at least 75 and INFORMATIONAL exactly when it is below
\* 25; 4.5 m, 45 kn, 2.5 km/h, 0.5 NM gives 100, SEVERE, URGENT and 1.0 m,
\* 10 kn, 0.5 km/h, 10 NM gives 0, LOW, INFORMATIONAL with no hazards.
C24_ClassifierToAlertLevel ==
    IsSome(classified) =>
        LET m == Get(measurements)
            c == Get(classified)
            level == _map_risk_to_alert_level(c.risk_level)
        IN  /\ (level = "URGENT") <=> (c.risk_score >= 75)
            /\ (level = "INFORMATIONAL") <=> (c.risk_score < 25)
            /\ (m = [wave_height |-> 45, wind_speed |-> 450,
                     current_velocity |-> 25, visibility |-> 5]) =>
                  /\ c.risk_score = 100
                  /\ c.risk_level = "SEVERE"
                  /\ level = "URGENT"
            /\ (m = [wave_height |-> 10, wind_speed |-> 100,
                     current_velocity |-> 5, visibility |-> 100]) =>
                  /\ c.risk_score = 0
                  /\ c.risk_level = "LOW"
                  /\ level = "INFORMATIONAL"
                  /\ c.hazards = <<>>

\* The first scenario has been classified.
C24_Witness ==
    /\ IsSome(classified)
    /\ Get(measurements) = [wave_height |-> 45, wind_speed |-> 450,
                            current_velocity |-> 25, visibility |-> 5]
    /\ Get(classified).risk_score = 100

(***************************************************************************)
(* The classifier on a partial measurement set.  An absent measurement is   *)
(* None; the first comparison of each factor (helpers.py 62, 72, 80, 86) is *)
(* always evaluated, and comparing None with a float raises TypeError.  The *)
(* function has no handler.                                                 *)
(***************************************************************************)
ClassifyOptional(wave_height, wind_speed, current_velocity, visibility) ==
    IF \/ wave_height = None
       \/ wind_speed = None
       \/ current_velocity = None
       \/ visibility = None
    THEN Raised("TypeError")
    ELSE Returned(classify_risk_from_conditions(
                      Get(wave_height), Get(wind_speed),
                      Get(current_velocity), Get(visibility)))

OptionalOf(S) == {None} \cup {Some(x) : x \in S}

PartialInit ==
    /\ measurements \in {Some([wave_height |-> w, wind_speed |-> s,
                               current_velocity |-> c, visibility |-> v]) :
                            w \in OptionalOf({10, 26, 45}),
                            s \in OptionalOf({100, 251, 450}),
                            c \in OptionalOf({5, 11, 25}),
                            v \in OptionalOf({5, 40, 100})}
    /\ classified = None
    /\ response_text = None
    /\ parsed = None
    /\ PipelineIdle
    /\ ComposerIdle

ClassifyPartial ==
    /\ classified = None
    /\ LET m == Get(measurements)
       IN  classified' = Some(ClassifyOptional(
                              m.wave_height, m.wind_speed,
                              m.current_velocity, m.visibility))
    /\ UNCHANGED <<measurements, interpreterVars, pipelineVars, composerVars>>

PartialNext == ClassifyPartial

PartialSpec == PartialInit /\ [][PartialNext]_vars

C25_Penalty(P(_), x) == IF x = None THEN 0 ELSE P(Get(x))

C25_Hazards(H(_), x) == IF x = None THEN <<>> ELSE H(Get(x))

\* C25: a measurement set with absent measurements is classified without
\* failure; an absent factor adds no penalty and no hazard and the present
\* factors are scored as usual.
C25_PartialInputValid ==
    IsSome(classified) =>
        LET m == Get(measurements)
            c == Get(classified)
        IN  /\ ~c.raised
            /\ c.value.risk_score =
                  Min(100, C25_Penalty(WavePenalty, m.wave_height)
                             + C25_Penalty(WindPenalty, m.wind_speed)
                             + C25_Penalty(CurrentPenalty, m.current_velocity)
                             + C25_Penalty(VisibilityPenalty, m.visibility))
            /\ c.value.hazards =
                  C25_Hazards(WaveHazards, m.wave_height)
                     \o C25_Hazards(WindHazards, m.wind_speed)
                     \o C25_Hazards(CurrentHazards, m.current_velocity)
                     \o C25_Hazards(VisibilityHazards, m.visibility)

\* The same for complete measurement sets: holds.
C25_CompleteInputValid ==
    (/\ IsSome(classified)
     /\ \A f \in DOMAIN Get(measurements) : Get(measurements)[f] # None)
        => C25_PartialInputValid

\* A fetch has been started and has not finished.
C26_Outstanding ==
    \/ tasks.weather_task.state = "awaited"
    \/ tasks.ocean_task.state = "awaited"

\* C26: ingestion starts the weather fetch and the ocean fetch together and
\* builds the IngestionResult only after both have completed; the result
\* carries the value of each fetch in its own field whatever the order of
\* completion, and risk analysis never starts while a fetch is outstanding.
C26_JoinBeforeResult ==
    /\ (tasks.weather_task.state = "none") <=> (tasks.ocean_task.state = "none")
    /\ C26_Outstanding =>
          /\ pc = "INGESTING"
          /\ ingestion_result = None
          /\ risk_assessment = None
          /\ ~Contains(stages, "risk")
    /\ IsSome(ingestion_result) =>
          /\ tasks.weather_task.state = "finished"
          /\ tasks.ocean_task.state = "finished"
          /\ Len(tasks.completed) = 2
          /\ ~HasError(Get(ingestion_result)) =>
                /\ Get(ingestion_result).weather_data = tasks.weather_task.value
                /\ Get(ingestion_result).ocean_data = tasks.ocean_task.value
    /\ Contains(stages, "risk") => IsSome(ingestion_result)

\* The ocean fetch completed first, both fetches delivered data, and the
\* result has been built.
C26_Witness ==
    /\ pc = "DATA_INGESTED"
    /\ tasks.completed = <<"ocean_task", "weather_task">>
    /\ tasks.weather_task.value # None
    /\ tasks.ocean_task.value # None
    /\ Get(ingestion_result).weather_data = tasks.weather_task.value

\* The weather fetch completed first and the result has been built.
C26_WeatherFirst ==
    /\ pc = "DATA_INGESTED"
    /\ tasks.completed = <<"weather_task", "ocean_task">>

\* A result exists exactly in the terminal positions, and in every other
\* position of a query some step of the pipeline can be taken.
C27_ResultIffTerminal ==
    /\ IsSome(response) <=> pc \in {"DONE", "FAILED"}
    /\ pc \notin {"DONE", "FAILED"} => ENABLED Next

\* The result is set once, on reaching a terminal position, and stays as it
\* is until process_query has returned.
C27_ResultSetOnce ==
    response' # response =>
        \/ response = None /\ IsSome(response') /\ pc' \in {"DONE", "FAILED"}
        \/ pc \in {"DONE", "FAILED"} /\ pc' = "IDLE"

\* C27: with collaborators that return or raise, every call of
\* process_query reaches DONE or FAILED and returns exactly one result; no
\* stage leaves the pipeline stuck.
C27_EveryQueryTerminates ==
    /\ []C27_ResultIffTerminal
    /\ [][C27_ResultSetOnce]_vars
    /\ (pc # "IDLE") ~> (pc \in {"DONE", "FAILED"})

\* A query went through all five stages and returned its result.
C27_Witness ==
    /\ pc = "DONE"
    /\ stages = StageOrder
    /\ IsSome(response)

\* The five fields of an assessment the reasoning outcome decides.
C28_Core(a) ==
    [risk_level |-> a.risk_level, risk_score |-> a.risk_score,
     hazards |-> a.hazards, recommendations |-> a.recommendations,
     confidence_score |-> a.confidence_score]

\* The ingestion result with other measurements.
C28_With(result, weather, ocean) ==
    [result EXCEPT !.weather_data = weather, !.ocean_data = ocean]

C29_FetchFailed ==
    /\ tasks.weather_task.state = "finished"
    /\ tasks.ocean_task.state = "finished"
    /\ \/ tasks.weather_task.value = None
       \/ tasks.ocean_task.value = None

\* C29: after a failure of the weather fetch, of the ocean fetch or of both
\* the IngestionResult has no error and the query is not failed by the
\* ingestion; it goes on to DONE with an alert.
C29_FetchFailureNoError ==
    (C29_FetchFailed /\ IsSome(ingestion_result)) =>
        /\ Get(ingestion_result).error = None
        /\ pc # "FAILED"
        /\ pc = "DONE" => Get(response).alert # None

\* The error of an IngestionResult is the message of the exception the
\* audit put raised, whatever the fetches did; without it the result
\* carries what the fetches delivered.
C29_ErrorOnlyFromPut ==
    IsSome(ingestion_result) =>
        /\ Get(ingestion_result).error \in {None, PutObject("raises")}
        /\ Get(ingestion_result).error = None =>
              /\ Get(ingestion_result).weather_data = tasks.weather_task.value
              /\ Get(ingestion_result).ocean_data = tasks.ocean_task.value
              /\ pc # "FAILED"

\* With both measurements absent and no error the query reaches DONE with
\* an alert: holds.
C29_AbsentDataStillCompletes ==
    /\ []C29_ErrorOnlyFromPut
    /\ (/\ pc = "DATA_INGESTED"
        /\ Get(ingestion_result).weather_data = None
        /\ Get(ingestion_result).ocean_data = None)
          ~> (pc = "DONE" /\ Get(response).alert # None)

C30_NoLocationText ==
    <<"Could not determine location from query. Please provide coordinates or location name.">>

=============================================================================
